---- MODULE Spec2Model ----
(***************************************************************************)
(* Model of the fpl0.panel backend (src-tauri).  The traffic-analytics     *)
(* engine of cloudflare.rs is modelled as a state machine that follows     *)
(* fetch_analytics from one await point to the next; is_content_path is    *)
(* modelled on real strings.                                               *)
(*                                                                         *)
(* JSON values: an object is a record (a missing key is a key that is not  *)
(* in its DOMAIN), an array is a sequence, a number is an integer (a       *)
(* negative one stands for any value as_u64() rejects), a string is a      *)
(* string.  Timestamps and dates are records [fmt, n]: the text chrono     *)
(* prints or parses, named by its format and the number it denotes.        *)
(***************************************************************************)
EXTENDS Integers, Sequences, FiniteSets, TLC

VARIABLES
    \* ---- fetch_analytics (cloudflare.rs) ----
    pc,                     \* position of the call: idle, main_wait, chunk, chunk_wait, done
    days,                   \* argument days: u32
    engagement,             \* argument engagement: bool
    now,                    \* chrono::Utc::now() read at entry
    main_zone,              \* first zone of the main response (borrowed for the rest of the call)
    chunk_start,            \* loop variable of the breakdown loop
    path_map,               \* HashMap<String, u64>
    adaptive_country_map,   \* HashMap<String, u64>
    sent,                   \* every query handed to graphql_query so far, in order
    received,               \* what the network answered to each query of sent, in order
    inflight,               \* queries sent and not yet answered
    result,                 \* Result<CfAnalytics, String> once the call returned
    \* ---- is_content_path (cloudflare.rs) ----
    path,                   \* argument path: &str
    evaluated,              \* whether is_content_path has returned
    verdict,                \* its return value
    \* ---- fetch_zone_id (cloudflare.rs) ----
    zpc,                    \* position of the call: idle, wait, done
    domain,                 \* argument domain: &str
    zone_received,          \* what the network answered to the GET
    zone_result,            \* Result<String, String> once the call returned
    \* ---- start_dev_server / stop_dev_server (devserver.rs) ----
    dev_child,              \* DevServerState: the Option<Child> in the mutex, 0 is None
    dev_lock,               \* the thread that holds the mutex, 0 when it is free
    dpc,                    \* per thread: position in start_dev_server / stop_dev_server
    dop,                    \* per thread: the function it is in
    dnew,                   \* per thread: the local `child` of start_dev_server
    dret,                   \* per thread: what its last call returned
    alive,                  \* the children spawned by the panel that are running
    spawned,                \* how many children were spawned so far
    \* ---- start_watching / stop_watching (watcher.rs) ----
    w_inner,                \* WatcherState: the Option<WatcherInner> in the mutex, id 0 is None
    wpc,                    \* position in start_watching
    w_arg,                  \* argument repo_path
    w_local,                \* the local `debouncer` of start_watching, 0 when there is none
    w_dirs,                 \* the directories the local debouncer watches
    w_ret,                  \* what the last call returned
    w_alive,                \* the debouncers that exist (created and not dropped)
    w_made,                 \* how many debouncers were created so far
    \* ---- publish / unpublish (commands.rs) ----
    c_disk,                 \* per slug: the content file in the working tree
    c_head,                 \* per slug: the version of the head commit
    c_remote,               \* per slug: the version the remote branch holds
    c_today,                \* the local date
    c_last,                 \* the last call: its arguments, the file before it, what it ran and returned
    c_stamps,               \* per slug: the days on which publish added a publicationDate
    \* ---- delete_content (content.rs) ----
    x_dirs,                 \* the directories of the working tree under src/content
    x_head,                 \* the directories of the head commit
    x_remote,               \* the directories of the remote branch
    x_last                  \* the last call: its slug, the tree before it, what it ran and returned

avars == <<pc, days, engagement, now, main_zone, chunk_start, path_map,
           adaptive_country_map, sent, received, inflight, result>>
pvars == <<path, evaluated, verdict>>
zvars == <<zpc, domain, zone_received, zone_result>>
dvars == <<dev_child, dev_lock, dpc, dop, dnew, dret, alive, spawned>>
\* the state of the desktop commands: dev server
wvars == <<w_inner, wpc, w_arg, w_local, w_dirs, w_ret, w_alive, w_made>>
cvars == <<c_disk, c_head, c_remote, c_today, c_last, c_stamps>>
xvars == <<x_dirs, x_head, x_remote, x_last>>
\* the state of the desktop commands: dev server, watcher, content, deletion
svars == <<dvars, wvars, cvars, xvars>>
\* everything but the dev server, but the watcher, but the content, but the deletion
notdev == <<avars, pvars, zvars, wvars, cvars, xvars>>
notwatch == <<avars, pvars, zvars, dvars, cvars, xvars>>
notcontent == <<avars, pvars, zvars, dvars, wvars, xvars>>
notdelete == <<avars, pvars, zvars, dvars, wvars, cvars>>
vars == <<avars, pvars, zvars, svars>>

-----------------------------------------------------------------------------
(* Strings *)

\* str::starts_with
starts_with(s, prefix) ==
    Len(s) >= Len(prefix) /\ SubSeq(s, 1, Len(prefix)) = prefix

\* str::ends_with
ends_with(s, suffix) ==
    Len(s) >= Len(suffix) /\ SubSeq(s, Len(s) - Len(suffix) + 1, Len(s)) = suffix

\* str::trim_end_matches('/'): removes the pattern repeatedly from the end
RECURSIVE trim_end_matches(_)
trim_end_matches(s) ==
    IF ends_with(s, "/") THEN trim_end_matches(SubSeq(s, 1, Len(s) - 1)) ELSE s

\* a variant that does not trim before matching
is_content_path_untrimmed(p0) ==
    \/ p0 = "/"
    \/ starts_with(p0, "/blog/")
    \/ starts_with(p0, "/apps/")
    \/ starts_with(p0, "/about")
    \/ starts_with(p0, "/tags")

\* fn is_content_path(path: &str) -> bool
is_content_path(p0) ==
    IF p0 = "/" THEN TRUE
    ELSE LET p == trim_end_matches(p0) IN
          \/ starts_with(p, "/blog/")
          \/ starts_with(p, "/apps/")
          \/ starts_with(p, "/about")
          \/ starts_with(p, "/tags")

-----------------------------------------------------------------------------
(* Inputs of is_content_path: a head, a middle and trailing slashes *)

PathHeads == {"", "/", "/blog", "/blog/", "/Blog/", "/apps", "/apps/", "/about",
              "/tags", "/assets/", "/api/", "blog/", "/blo", "/x/blog/"}
PathMiddles == {"", "my-post", "-team", "/rust", "logo.png", "health"}
PathSlashes == {"", "/", "//"}
PathInputs == {h \o m \o s : h \in PathHeads, m \in PathMiddles, s \in PathSlashes}

PathIdle == path = "" /\ evaluated = FALSE /\ verdict = FALSE

\* the call is_content_path(path)
EvalContentPath ==
    /\ ~evaluated
    /\ evaluated' = TRUE
    /\ verdict' = is_content_path(path)
    /\ UNCHANGED <<path, avars, zvars, svars>>

-----------------------------------------------------------------------------
(* Time: a DateTime<Utc> is [secs, nanos]; printed text is [fmt, n, off] *)

\* chrono::Duration::days(k) and ::hours(k), in seconds
DurationDays(k) == k * 86400
DurationHours(k) == k * 3600

\* DateTime - Duration
Minus(t, d) == [t EXCEPT !.secs = @ - d]
\* DateTime + Duration
Plus(t, d) == [t EXCEPT !.secs = @ + d]

\* .format("%Y-%m-%dT%H:%M:%SZ"): drops the sub-second part
FormatSecond(t) == [fmt |-> "rfc3339", n |-> t.secs, off |-> 0]
\* .format("%Y-%m-%dT%H:00:00Z"): drops minutes, seconds and the sub-second part
FormatHour(t) == [fmt |-> "rfc3339", n |-> (t.secs \div 3600) * 3600, off |-> 0]
\* .format("%Y-%m-%d")
FormatDate(t) == [fmt |-> "date", n |-> t.secs \div 86400, off |-> 0]

\* the empty string, as a timestamp text
EmptyText == [fmt |-> "raw", n |-> 0, off |-> 0]

\* chrono::DateTime::parse_from_rfc3339(dt).is_ok()
parse_from_rfc3339_ok(text) == text.fmt = "rfc3339"
\* the parsed DateTime<FixedOffset>: text.n is the wall clock it shows, text.off its offset
parse_from_rfc3339(text) == [secs |-> text.n - text.off, nanos |-> 0, off |-> text.off]
\* parsed.format("%Y-%m-%dT%H:00:00Z") prints the wall clock of the parsed offset
FormatHourFixed(p) == [fmt |-> "rfc3339", n |-> ((p.secs + p.off) \div 3600) * 3600, off |-> 0]

-----------------------------------------------------------------------------
(* JSON access and Result *)

Has(o, k) == k \in DOMAIN o
\* o[k].as_u64().unwrap_or(0)
AsU64Or0(o, k) == IF Has(o, k) /\ o[k] >= 0 THEN o[k] ELSE 0
\* o[k].as_str().unwrap_or(d)
AsStrOr(o, k, d) == IF Has(o, k) THEN o[k] ELSE d
\* o[k].as_array(), None read as no element
AsArray(o, k) == IF Has(o, k) THEN o[k] ELSE <<>>
\* o[k] as an object, Null read as the empty object
AsObject(o, k) == IF Has(o, k) THEN o[k] ELSE <<>>

Ok(v) == [ok |-> TRUE, val |-> v, err |-> ""]
Err(e) == [ok |-> FALSE, val |-> <<>>, err |-> e]

\* a variant that ignores the error list of the payload
graphql_query_ignoring_errors(t) ==
    IF t.send = "err" THEN Err("Failed to fetch analytics")
    ELSE IF t.json = "err" THEN Err("Failed to parse analytics response")
    ELSE Ok(t.resp)

\* async fn graphql_query: t is what the network did with the request
graphql_query(t) ==
    IF t.send = "err" THEN Err("Failed to fetch analytics")
    ELSE IF t.json = "err" THEN Err("Failed to parse analytics response")
    ELSE LET errors == AsArray(t.resp, "errors") IN
         IF Len(errors) > 0
         THEN Err("Analytics query failed: "
                  \o AsStrOr(errors[1], "message", "Unknown GraphQL error"))
         ELSE Ok(t.resp)

\* resp["data"]["viewer"]["zones"].as_array().and_then(|arr| arr.first())
ZonesOf(resp) == AsArray(AsObject(AsObject(resp, "data"), "viewer"), "zones")

-----------------------------------------------------------------------------
(* Query planner *)

CHUNK_DAYS == 5

daily_metric(eng) == IF eng THEN "pageViews" ELSE "requests"
path_limit(eng) == IF eng THEN 50 ELSE 10

\* the main query: daily_part inside the zones filter
MainQuery(n, d, eng) ==
    IF d = 1
    THEN [kind |-> "main", dataset |-> "httpRequests1hGroups",
          geq |-> FormatSecond(Minus(n, DurationDays(d))),
          leq |-> FormatSecond(n),
          metric |-> daily_metric(eng), fields |-> <<>>,
          chunk_start |-> 0, chunk_end |-> 0]
    ELSE [kind |-> "main", dataset |-> "httpRequests1dGroups",
          geq |-> FormatDate(Minus(n, DurationDays(d - 1))),
          leq |-> FormatDate(n),
          metric |-> daily_metric(eng), fields |-> <<>>,
          chunk_start |-> 0, chunk_end |-> 0]

\* a variant whose window ends one day too late
WinEndLate(n, ds, d) == FormatSecond(Minus(n, DurationDays(ds - d - 2)))

win_start(n, ds, d) == FormatSecond(Minus(n, DurationDays(ds - d)))
win_end(n, ds, d) == FormatSecond(Minus(n, DurationDays(ds - d - 1)))

\* a variant that gives both fields of a day the same alias
PartOneAlias(n, ds, eng, d) ==
    << [alias |-> "pd" \o ToString(d), dataset |-> "httpRequestsAdaptiveGroups",
        geq |-> win_start(n, ds, d), leq |-> win_end(n, ds, d),
        status200 |-> eng, limit |-> path_limit(eng),
        dimension |-> "clientRequestPath"],
       [alias |-> "pd" \o ToString(d), dataset |-> "httpRequestsAdaptiveGroups",
        geq |-> win_start(n, ds, d), leq |-> win_end(n, ds, d),
        status200 |-> eng, limit |-> 10,
        dimension |-> "clientCountryName"] >>

\* one element of parts: the two aliased fields of day index d
Part(n, ds, eng, d) ==
    << [alias |-> "pd" \o ToString(d), dataset |-> "httpRequestsAdaptiveGroups",
        geq |-> win_start(n, ds, d), leq |-> win_end(n, ds, d),
        status200 |-> eng, limit |-> path_limit(eng),
        dimension |-> "clientRequestPath"],
       [alias |-> "cd" \o ToString(d), dataset |-> "httpRequestsAdaptiveGroups",
        geq |-> win_start(n, ds, d), leq |-> win_end(n, ds, d),
        status200 |-> eng, limit |-> 10,
        dimension |-> "clientCountryName"] >>

\* for d in chunk_start..chunk_end { parts.push(..) }; parts.join(..)
RECURSIVE Parts(_, _, _, _, _)
Parts(n, ds, eng, d, ce) ==
    IF d >= ce THEN <<>> ELSE Part(n, ds, eng, d) \o Parts(n, ds, eng, d + 1, ce)

Min(a, b) == IF a <= b THEN a ELSE b

\* a variant that always takes a full chunk
ChunkEndFull(cs, ds) == cs + CHUNK_DAYS

\* let chunk_end = std::cmp::min(chunk_start + CHUNK_DAYS, days)
chunk_end(cs, ds) == Min(cs + CHUNK_DAYS, ds)

ChunkQuery(n, ds, eng, cs) ==
    [kind |-> "chunk", dataset |-> "httpRequestsAdaptiveGroups",
     geq |-> EmptyText, leq |-> EmptyText, metric |-> "",
     fields |-> Parts(n, ds, eng, cs, chunk_end(cs, ds)),
     chunk_start |-> cs, chunk_end |-> chunk_end(cs, ds)]

-----------------------------------------------------------------------------
(* HashMap / BTreeMap as functions *)

EmptyMap == <<>>

\* a variant in which an insert replaces the count already stored
AddToOverwriting(m, k, c) ==
    [x \in DOMAIN m \cup {k} |-> IF x = k THEN c ELSE m[x]]

\* *m.entry(k).or_default() += c
AddTo(m, k, c) ==
    IF k \in DOMAIN m THEN [m EXCEPT ![k] = @ + c]
    ELSE [x \in DOMAIN m \cup {k} |-> IF x = k THEN c ELSE m[x]]

-----------------------------------------------------------------------------------------------------------------------------------------------------
(* Breakdown aggregator: the body of `if let Ok(resp) = graphql_query(..)`.    *)
(* A loop is a recursive operator on its state: the index and what it updates. *)

\* a variant that accumulates every path in both modes
RECURSIVE MergePathsUnfiltered(_, _, _)
MergePathsUnfiltered(st, arr, eng) ==
    IF st.i > Len(arr) THEN st
    ELSE LET entry == arr[st.i]
             p == AsStrOr(AsObject(entry, "dimensions"), "clientRequestPath", "/")
         IN MergePathsUnfiltered([i |-> st.i + 1,
                                  m |-> AddTo(st.m, p, AsU64Or0(entry, "count"))], arr, eng)

\* for entry in arr (pd{d}): filter, then accumulate; st = [i, m]
RECURSIVE MergePaths(_, _, _)
MergePaths(st, arr, eng) ==
    IF st.i > Len(arr) THEN st
    ELSE LET entry == arr[st.i]
             p == AsStrOr(AsObject(entry, "dimensions"), "clientRequestPath", "/")
         IN IF eng /\ ~is_content_path(p)
            THEN MergePaths([i |-> st.i + 1, m |-> st.m], arr, eng)
            ELSE MergePaths([i |-> st.i + 1,
                             m |-> AddTo(st.m, p, AsU64Or0(entry, "count"))], arr, eng)

\* for entry in arr (cd{d}): accumulate; st = [i, m]
RECURSIVE MergeCountries(_, _)
MergeCountries(st, arr) ==
    IF st.i > Len(arr) THEN st
    ELSE LET entry == arr[st.i]
             c == AsStrOr(AsObject(entry, "dimensions"), "clientCountryName", "Unknown")
         IN MergeCountries([i |-> st.i + 1,
                            m |-> AddTo(st.m, c, AsU64Or0(entry, "count"))], arr)

\* for d in chunk_start..chunk_end; st = [d, p, c]
RECURSIVE MergeZone(_, _, _, _)
MergeZone(st, zone, ce, eng) ==
    IF st.d >= ce THEN st
    ELSE MergeZone(
            [d |-> st.d + 1,
             p |-> MergePaths([i |-> 1, m |-> st.p],
                              AsArray(zone, "pd" \o ToString(st.d)), eng).m,
             c |-> MergeCountries([i |-> 1, m |-> st.c],
                                  AsArray(zone, "cd" \o ToString(st.d))).m],
            zone, ce, eng)

\* a variant in which a failed chunk discards what was merged before it
MergeChunkResetting(maps, t, cs, ce, eng) ==
    LET r == graphql_query(t) IN
    IF r.ok /\ Len(ZonesOf(r.val)) > 0
    THEN LET st == MergeZone([d |-> cs, p |-> maps.p, c |-> maps.c],
                             ZonesOf(r.val)[1], ce, eng)
         IN [p |-> st.p, c |-> st.c]
    ELSE [p |-> EmptyMap, c |-> EmptyMap]

\* the maps [p, c] after the answer t to the query of chunk [cs, ce)
MergeChunk(maps, t, cs, ce, eng) ==
    LET r == graphql_query(t) IN
    IF r.ok /\ Len(ZonesOf(r.val)) > 0
    THEN LET st == MergeZone([d |-> cs, p |-> maps.p, c |-> maps.c],
                             ZonesOf(r.val)[1], ce, eng)
         IN [p |-> st.p, c |-> st.c]
    ELSE maps

-----------------------------------------------------------------------------
(* Slot aggregator: daily_map, status_map, browser_map from main_zone *)

\* for s in status_arr; st = [i, m]
RECURSIVE MergeStatus(_, _)
MergeStatus(st, arr) ==
    IF st.i > Len(arr) THEN st
    ELSE MergeStatus([i |-> st.i + 1,
                      m |-> AddTo(st.m, AsU64Or0(arr[st.i], "edgeResponseStatus") % 65536,
                                  AsU64Or0(arr[st.i], "requests"))], arr)

\* for b in browser_arr; st = [i, m]
RECURSIVE MergeBrowsers(_, _)
MergeBrowsers(st, arr) ==
    IF st.i > Len(arr) THEN st
    ELSE MergeBrowsers([i |-> st.i + 1,
                        m |-> AddTo(st.m, AsStrOr(arr[st.i], "uaBrowserFamily", "Unknown"),
                                    AsU64Or0(arr[st.i], "pageViews"))], arr)

ZeroAccum == [count |-> 0, bytes |-> 0, cached_bytes |-> 0, cached_requests |-> 0,
              threats |-> 0]

\* the slot key of one entry of the main response
SlotKey(entry, hourly) ==
    LET dim == AsObject(entry, "dimensions") IN
    IF hourly
    THEN LET dt == IF Has(dim, "datetime") THEN dim.datetime ELSE EmptyText IN
         IF parse_from_rfc3339_ok(dt) THEN FormatHourFixed(parse_from_rfc3339(dt)) ELSE dt
    ELSE IF Has(dim, "date") THEN dim.date ELSE EmptyText

\* a variant that overwrites a slot instead of adding to it
AccumulateOverwriting(dm, key, sum, metric) ==
    LET acc == [count |-> AsU64Or0(sum, metric),
                bytes |-> AsU64Or0(sum, "bytes"),
                cached_bytes |-> AsU64Or0(sum, "cachedBytes"),
                cached_requests |-> AsU64Or0(sum, "cachedRequests"),
                threats |-> AsU64Or0(sum, "threats")]
    IN [x \in DOMAIN dm \cup {key} |-> IF x = key THEN acc ELSE dm[x]]

\* daily_map.entry(date).or_insert(zero), then acc.field += field
Accumulate(dm, key, sum, metric) ==
    LET old == IF key \in DOMAIN dm THEN dm[key] ELSE ZeroAccum
        acc == [count |-> old.count + AsU64Or0(sum, metric),
                bytes |-> old.bytes + AsU64Or0(sum, "bytes"),
                cached_bytes |-> old.cached_bytes + AsU64Or0(sum, "cachedBytes"),
                cached_requests |-> old.cached_requests + AsU64Or0(sum, "cachedRequests"),
                threats |-> old.threats + AsU64Or0(sum, "threats")]
    IN [x \in DOMAIN dm \cup {key} |-> IF x = key THEN acc ELSE dm[x]]

\* for entry in daily_arr; st = [i, daily_map, status_map, browser_map]
RECURSIVE ParseDaily(_, _, _, _)
ParseDaily(st, arr, hourly, metric) ==
    IF st.i > Len(arr) THEN st
    ELSE LET entry == arr[st.i]
             sum == AsObject(entry, "sum")
         IN ParseDaily(
               [i |-> st.i + 1,
                daily_map |-> Accumulate(st.daily_map, SlotKey(entry, hourly), sum, metric),
                status_map |-> MergeStatus([i |-> 1, m |-> st.status_map],
                                           AsArray(sum, "responseStatusMap")).m,
                browser_map |-> MergeBrowsers([i |-> 1, m |-> st.browser_map],
                                              AsArray(sum, "browserMap")).m],
               arr, hourly, metric)

\* the three maps of a main zone: `if let Some(daily_arr) = main_zone["daily"].as_array()`
ParseMain(zone, hourly, eng) ==
    ParseDaily([i |-> 1, daily_map |-> EmptyMap, status_map |-> EmptyMap,
                browser_map |-> EmptyMap],
               AsArray(zone, "daily"), hourly, daily_metric(eng))

-----------------------------------------------------------------------------
(* Series builder *)

CfDailyCount(key, dm) ==
    LET acc == IF key \in DOMAIN dm THEN dm[key] ELSE ZeroAccum IN
    [date |-> key, count |-> acc.count, uniques |-> 0, bytes |-> acc.bytes,
     cached_bytes |-> acc.cached_bytes, cached_requests |-> acc.cached_requests,
     threats |-> acc.threats]

\* a variant that counts back from 24 hours ago
HourlyLabelFrom24(n, i) == FormatHour(Minus(n, DurationHours(24 - i)))

\* the label of hourly slot i (0-based): now - hours(23 - i)
HourlyLabel(n, i) == FormatHour(Minus(n, DurationHours(23 - i)))

\* a variant that starts a day early
DailyLabelEarly(n, ds, i) == FormatDate(Plus(Minus(n, DurationDays(ds)), DurationDays(i)))

\* the label of daily slot i (0-based): start + days(i), start = now - days(days - 1)
DailyLabel(n, ds, i) == FormatDate(Plus(Minus(n, DurationDays(ds - 1)), DurationDays(i)))

\* a variant that emits one slot per key of the map, in ascending order
RECURSIVE KeysAscending(_)
KeysAscending(S) ==
    IF S = {} THEN <<>>
    ELSE LET k == CHOOSE k \in S : \A x \in S : k.n <= x.n IN
         <<k>> \o KeysAscending(S \ {k})
BuildSeriesFromKeys(dm, n, ds) ==
    LET ks == KeysAscending(DOMAIN dm) IN
    [i \in 1..Len(ks) |-> CfDailyCount(ks[i], dm)]

\* let daily_requests: Vec<CfDailyCount>
BuildSeries(dm, n, ds) ==
    IF ds = 1
    THEN [i \in 1..24 |-> CfDailyCount(HourlyLabel(n, i - 1), dm)]
    ELSE [i \in 1..ds |-> CfDailyCount(DailyLabel(n, ds, i - 1), dm)]

RECURSIVE SumCount(_, _)
SumCount(v, i) == IF i > Len(v) THEN 0 ELSE v[i].count + SumCount(v, i + 1)

RECURSIVE SumMapCount(_)
SumMapCount(dm) ==
    IF DOMAIN dm = {} THEN 0
    ELSE LET k == CHOOSE k \in DOMAIN dm : TRUE IN
         dm[k].count + SumMapCount([x \in DOMAIN dm \ {k} |-> dm[x]])

\* a variant that totals what was accumulated instead of what is returned
TotalOfMap(series, dm) == SumMapCount(dm)

\* let total_requests: u64 = daily_requests.iter().map(|d| d.count).sum()
Total(series, dm) == SumCount(series, 1)

-----------------------------------------------------------------------------
(* Report assembler: map -> Vec, sort_by count descending (stable), truncate(10) *)

\* the keys of a set in one fixed order
RECURSIVE Enumerate(_)
Enumerate(S) ==
    IF S = {} THEN <<>>
    ELSE LET x == CHOOSE x \in S : TRUE IN <<x>> \o Enumerate(S \ {x})

Reverse(v) == [i \in 1..Len(v) |-> v[Len(v) + 1 - i]]

\* HashMap::into_iter(): an unspecified order, here one of IterOrders
IterOrders == {"fwd", "rev"}
IntoIter(m, ord) ==
    LET ks == Enumerate(DOMAIN m)
        v == [i \in 1..Len(ks) |-> [key |-> ks[i], count |-> m[ks[i]]]]
    IN IF ord = "fwd" THEN v ELSE Reverse(v)

\* x placed behind every element whose count is not smaller (a stable sort's place)
RECURSIVE InsertDesc(_, _)
InsertDesc(sorted, x) ==
    IF sorted = <<>> THEN <<x>>
    ELSE IF Head(sorted).count >= x.count
         THEN <<Head(sorted)>> \o InsertDesc(Tail(sorted), x)
         ELSE <<x>> \o sorted

\* st = [i, sorted]
RECURSIVE SortFrom(_, _)
SortFrom(st, v) ==
    IF st.i > Len(v) THEN st
    ELSE SortFrom([i |-> st.i + 1, sorted |-> InsertDesc(st.sorted, v[st.i])], v)

\* a variant that sorts ascending
sort_by_count_asc(v) == Reverse(SortFrom([i |-> 1, sorted |-> <<>>], v).sorted)

\* v.sort_by(|a, b| b.count.cmp(&a.count))
sort_by_count_desc(v) == SortFrom([i |-> 1, sorted |-> <<>>], v).sorted

\* a variant that keeps everything
truncate_nothing(v, k) == v

\* v.truncate(k)
truncate(v, k) == SubSeq(v, 1, Min(Len(v), k))

TopOf(m, ord) == truncate(sort_by_count_desc(IntoIter(m, ord)), 10)

AsPaths(v) == [i \in DOMAIN v |-> [path |-> v[i].key, count |-> v[i].count]]
AsCountries(v) == [i \in DOMAIN v |-> [country |-> v[i].key, count |-> v[i].count]]
AsStatuses(v) == [i \in DOMAIN v |-> [status |-> v[i].key, count |-> v[i].count]]
AsBrowsers(v) == [i \in DOMAIN v |-> [browser |-> v[i].key, page_views |-> v[i].count]]

\* Ok(CfAnalytics { .. }): ord is the iteration order of each of the four maps
Assemble(zone, pm, cm, n, ds, eng, ord) ==
    LET parsed == ParseMain(zone, ds = 1, eng)
        series == BuildSeries(parsed.daily_map, n, ds)
    IN [period |-> ToString(ds) \o "d",
        total_requests |-> Total(series, parsed.daily_map),
        daily_requests |-> series,
        top_paths |-> AsPaths(TopOf(pm, ord.p)),
        top_countries |-> AsCountries(TopOf(cm, ord.c)),
        status_codes |-> AsStatuses(TopOf(parsed.status_map, ord.s)),
        browsers |-> AsBrowsers(TopOf(parsed.browser_map, ord.b))]

-----------------------------------------------------------------------------
(* The analytics API as the call sees it: what the network may answer *)

NetErr == [send |-> "err", json |-> "ok", resp |-> <<>>]
BadBody == [send |-> "ok", json |-> "err", resp |-> <<>>]
Json(resp) == [send |-> "ok", json |-> "ok", resp |-> resp]
Data(zones) == [viewer |-> [zones |-> zones]]

\* one time bucket of the main response
Bucket(q, text, c, statuses, browsers) ==
    [dimensions |-> IF q.dataset = "httpRequests1hGroups"
                    THEN [datetime |-> text] ELSE [date |-> text],
     sum |-> (q.metric :> c) @@
             [bytes |-> 10 * c, cachedBytes |-> 3 * c, cachedRequests |-> c \div 2,
              threats |-> c % 2, responseStatusMap |-> statuses, browserMap |-> browsers]]

\* the text the API prints for expected slot i of the period, `into` seconds into it
SlotText(q, n, ds, i, into) ==
    IF q.dataset = "httpRequests1hGroups"
    THEN [fmt |-> "rfc3339", n |-> HourlyLabel(n, i).n + into, off |-> 0]
    ELSE DailyLabel(n, ds, i)

Slots(ds) == IF ds = 1 THEN 24 ELSE ds

Status(code, c) == [edgeResponseStatus |-> code, requests |-> c]
Browser(family, c) == [uaBrowserFamily |-> family, pageViews |-> c]

ManyStatuses ==
    [j \in 1..12 |-> Status(IF j = 12 THEN 65536 + 201 ELSE 200 + j, 1 + (j % 4))]
ManyBrowsers ==
    <<Browser("Chrome", 5), Browser("Firefox", 3), Browser("Safari", 5),
      Browser("Edge", 1), Browser("Opera", 2), Browser("Brave", 2),
      Browser("Vivaldi", 1), Browser("curl", 9), Browser("Googlebot", 7),
      Browser("bingbot", 4), Browser("Samsung", 6), [pageViews |-> 8],
      [uaBrowserFamily |-> "Chrome"]>>

\* the `daily` arrays the API may return for the main query q
DailyFull(q, n, ds) ==
    [i \in 1..Slots(ds) |->
        Bucket(q, SlotText(q, n, ds, i - 1, 0), i,
               <<Status(200, i)>>, <<Browser("Chrome", 1)>>)]
DailyMixed(q, n, ds) ==
    << Bucket(q, SlotText(q, n, ds, 0, 0), 5, <<Status(200, 4), Status(404, 1)>>, <<>>),
       Bucket(q, SlotText(q, n, ds, 0, 1800), 7, <<Status(200, 7)>>,
              <<Browser("Firefox", 2)>>),
       Bucket(q, SlotText(q, n, ds, Slots(ds) - 1, 0), 2, <<>>, <<Browser("Firefox", 1)>>),
       \* a bucket one slot before the first expected one
       Bucket(q, SlotText(q, n, ds, -1, 0), 11, <<Status(301, 11)>>, <<>>),
       \* a text that is no timestamp and no date of the period
       Bucket(q, [fmt |-> "raw", n |-> 7, off |-> 0], 13, <<>>, <<>>),
       \* a timestamp printed with an offset of +01:00
       Bucket(q, [fmt |-> IF ds = 1 THEN "rfc3339" ELSE "raw",
                  n |-> HourlyLabel(n, 2).n + 60, off |-> 3600], 17, <<>>, <<>>),
       \* a bucket without dimensions, one without sum
       [sum |-> [requests |-> 19, pageViews |-> 23, bytes |-> -1]],
       [dimensions |-> IF ds = 1 THEN [datetime |-> SlotText(q, n, ds, 1, 0)]
                       ELSE [date |-> SlotText(q, n, ds, 1, 0)]] >>
DailyWide(q, n, ds) ==
    << Bucket(q, SlotText(q, n, ds, Slots(ds) - 1, 0), 40, ManyStatuses, ManyBrowsers) >>

MainFailures ==
    { NetErr, BadBody,
      Json([errors |-> <<[message |-> "quota exceeded"]>>,
            data |-> Data(<<[daily |-> <<>>]>>)]),
      Json([errors |-> <<[code |-> 7]>>]) }
MainNoZone ==
    { Json([data |-> Data(<<>>)]), Json([errors |-> <<>>]) }
MainZones(q, n, ds) ==
    { Json([data |-> Data(<<[other |-> <<>>]>>)]),
      Json([data |-> Data(<<[daily |-> <<>>]>>), errors |-> <<>>]),
      Json([data |-> Data(<<[daily |-> DailyFull(q, n, ds)]>>)]),
      Json([data |-> Data(<<[daily |-> DailyMixed(q, n, ds)]>>)]),
      Json([data |-> Data(<<[daily |-> DailyWide(q, n, ds)], [daily |-> <<>>]>>)]) }
MainAnswers(q, n, ds) == MainFailures \cup MainNoZone \cup MainZones(q, n, ds)

PathEntry(p, c) == [dimensions |-> [clientRequestPath |-> p], count |-> c]
CountryEntry(cn, c) == [dimensions |-> [clientCountryName |-> cn], count |-> c]

ManyPaths ==
    <<"/", "/blog/a", "/blog/b/", "/apps/x", "/about", "/about-team", "/tags/rust",
      "/tags", "/assets/x.png", "/api/health", "/blog", "/favicon.ico", "/robots.txt">>
ManyCountries ==
    <<"US", "DE", "FR", "GB", "NL", "ES", "IT", "PL", "SE", "JP", "BR", "IN">>

\* the array the API may return for one aliased field f, by profile: "few" is a
\* short clean list, "many" a long one that ends in entries with missing or
\* unusable members
FieldArray(profile, f) ==
    LET day == f.geq.n \div 86400 IN
    IF f.dimension = "clientRequestPath"
    THEN IF profile = "few"
         THEN << PathEntry("/blog/a", 10), PathEntry("/assets/x.png", 50) >>
         ELSE [j \in 1..Len(ManyPaths) |-> PathEntry(ManyPaths[j], 1 + ((j + day) % 4))]
              \o << [count |-> 6], [dimensions |-> [clientRequestPath |-> "/blog/c"]],
                    PathEntry("/blog/", 4), PathEntry("/tags/", -1) >>
    ELSE IF profile = "few"
         THEN << CountryEntry("US", 5), CountryEntry("DE", 3) >>
         ELSE [j \in 1..Len(ManyCountries) |-> CountryEntry(ManyCountries[j], j)]
              \o << [count |-> 2], CountryEntry("US", 1) >>

\* the zone object answering chunk query q; profile "many" leaves out the fields
\* of every third day
ZoneFor(profile, q) ==
    LET idx == {i \in 1..Len(q.fields) :
                   profile # "many" \/ (q.fields[i].geq.n \div 86400) % 3 # 0}
    IN [a \in {q.fields[i].alias : i \in idx} |->
          FieldArray(profile,
                     q.fields[CHOOSE i \in idx : q.fields[i].alias = a])]

ChunkFailures ==
    { NetErr, BadBody, Json([errors |-> <<[message |-> "time range exceeds 86400s"]>>]),
      Json([data |-> Data(<<>>)]) }
ChunkProfiles == {"few", "many"}
ChunkAnswers(q) ==
    ChunkFailures \cup {Json([data |-> Data(<<ZoneFor(pr, q)>>)]) : pr \in ChunkProfiles}

-----------------------------------------------------------------------------
(* devserver.rs: start_dev_server and stop_dev_server, called from any thread *)
(* of the command pool and from the Exit handler of lib.rs.  A step is what   *)
(* one thread does between two points at which another thread can run.       *)

NumThreads == 2
Threads == 1..NumThreads
MaxSpawns == 3

DevIdle ==
    /\ dev_child = 0 /\ dev_lock = 0
    /\ dpc = [t \in Threads |-> "idle"]
    /\ dop = [t \in Threads |-> "none"]
    /\ dnew = [t \in Threads |-> 0]
    /\ dret = [t \in Threads |-> "none"]
    /\ alive = {} /\ spawned = 0

\* a thread enters start_dev_server or stop_dev_server and asks for the mutex
DevCall(t, op) ==
    /\ dpc[t] = "idle"
    /\ dpc' = [dpc EXCEPT ![t] = "lock"]
    /\ dop' = [dop EXCEPT ![t] = op]
    /\ dret' = [dret EXCEPT ![t] = "none"]
    /\ UNCHANGED <<dev_child, dev_lock, dnew, alive, spawned, notdev>>

\* let mut guard = state.0.lock()
DevLock(t) ==
    /\ dpc[t] = "lock" /\ dev_lock = 0
    /\ dev_lock' = t
    /\ dpc' = [dpc EXCEPT ![t] = "kill"]
    /\ UNCHANGED <<dev_child, dop, dnew, dret, alive, spawned, notdev>>

\* a variant that leaves the recorded child running
DevKillSkipping(t) ==
    /\ dpc[t] = "kill" /\ dev_lock = t
    /\ dpc' = [dpc EXCEPT ![t] = "clear"]
    /\ UNCHANGED <<dev_child, dev_lock, dop, dnew, dret, alive, spawned, notdev>>

\* if let Some(ref mut child) = *guard { kill_child_tree(child) }: SIGTERM, then wait
DevKill(t) ==
    /\ dpc[t] = "kill" /\ dev_lock = t
    /\ alive' = IF dev_child # 0 THEN alive \ {dev_child} ELSE alive
    /\ dpc' = [dpc EXCEPT ![t] = "clear"]
    /\ UNCHANGED <<dev_child, dev_lock, dop, dnew, dret, spawned, notdev>>

\* *guard = None; stop_dev_server then returns Ok(()) and drops the guard
DevClear(t) ==
    /\ dpc[t] = "clear" /\ dev_lock = t
    /\ dev_child' = 0
    /\ IF dop[t] = "stop"
       THEN /\ dpc' = [dpc EXCEPT ![t] = "idle"]
            /\ dret' = [dret EXCEPT ![t] = "ok"]
            /\ dev_lock' = 0
       ELSE /\ dpc' = [dpc EXCEPT ![t] = "spawn"]
            /\ UNCHANGED <<dret, dev_lock>>
    /\ UNCHANGED <<dop, dnew, alive, spawned, notdev>>

\* cmd.spawn() succeeds: a new child runs, held in the local `child`
DevSpawnOk(t) ==
    /\ dpc[t] = "spawn" /\ dev_lock = t
    /\ spawned < MaxSpawns
    /\ spawned' = spawned + 1
    /\ alive' = alive \cup {spawned + 1}
    /\ dnew' = [dnew EXCEPT ![t] = spawned + 1]
    /\ dpc' = [dpc EXCEPT ![t] = "store"]
    /\ UNCHANGED <<dev_child, dev_lock, dop, dret, notdev>>

\* cmd.spawn() fails: map_err(..)? returns the error and drops the guard
DevSpawnFail(t) ==
    /\ dpc[t] = "spawn" /\ dev_lock = t
    /\ dret' = [dret EXCEPT ![t] = "err"]
    /\ dpc' = [dpc EXCEPT ![t] = "idle"]
    /\ dev_lock' = 0
    /\ UNCHANGED <<dev_child, dop, dnew, alive, spawned, notdev>>

\* *guard = Some(child); Ok(()) and the guard is dropped
DevStore(t) ==
    /\ dpc[t] = "store" /\ dev_lock = t
    /\ dev_child' = dnew[t]
    /\ dnew' = [dnew EXCEPT ![t] = 0]
    /\ dret' = [dret EXCEPT ![t] = "ok"]
    /\ dpc' = [dpc EXCEPT ![t] = "idle"]
    /\ dev_lock' = 0
    /\ UNCHANGED <<dop, alive, spawned, notdev>>

\* a running child ends on its own
ChildExits(c) ==
    /\ c \in alive
    /\ alive' = alive \ {c}
    /\ UNCHANGED <<dev_child, dev_lock, dpc, dop, dnew, dret, spawned, notdev>>

-----------------------------------------------------------------------------
(* watcher.rs: start_watching and stop_watching.  A debouncer has an identity *)
(* (its number); it exists from new_debouncer until it is dropped.            *)

MaxWatchers == 3
RepoPaths == {"/repo/a", "/repo/b", "/repo/c"}
NoWatcher == [id |-> 0, path |-> "", dirs |-> {}]

WatchIdle ==
    /\ w_inner = NoWatcher /\ wpc = "idle" /\ w_arg = "" /\ w_local = 0 /\ w_dirs = {}
    /\ w_ret = "none" /\ w_alive = {} /\ w_made = 0

\* start_watching(app, repo_path) is entered and takes the mutex
WatchCall(pth) ==
    /\ wpc = "idle"
    /\ w_arg' = pth /\ w_ret' = "none"
    /\ wpc' = "check"
    /\ UNCHANGED <<w_inner, w_local, w_dirs, w_alive, w_made, notwatch>>

\* if already watching the same path: return Ok(())
WatchCheck ==
    /\ wpc = "check"
    /\ IF w_inner.id # 0 /\ w_inner.path = w_arg
       THEN wpc' = "idle" /\ w_ret' = "ok"
       ELSE wpc' = "drop" /\ UNCHANGED w_ret
    /\ UNCHANGED <<w_inner, w_arg, w_local, w_dirs, w_alive, w_made, notwatch>>

\* a variant that keeps the old watcher until the new one is stored
WatchDropSkipping ==
    /\ wpc = "drop"
    /\ wpc' = "create"
    /\ UNCHANGED <<w_inner, w_arg, w_local, w_dirs, w_ret, w_alive, w_made, notwatch>>

\* *guard = None: the old WatcherInner, if any, is dropped
WatchDrop ==
    /\ wpc = "drop"
    /\ w_inner' = NoWatcher
    /\ w_alive' = w_alive \ {w_inner.id}
    /\ wpc' = "create"
    /\ UNCHANGED <<w_arg, w_local, w_dirs, w_ret, w_made, notwatch>>

\* new_debouncer(..) succeeds
WatchCreateOk ==
    /\ wpc = "create" /\ w_made < MaxWatchers
    /\ w_made' = w_made + 1
    /\ w_local' = w_made + 1
    /\ w_dirs' = {}
    /\ w_alive' = w_alive \cup {w_made + 1}
    /\ wpc' = "blog"
    /\ UNCHANGED <<w_inner, w_arg, w_ret, notwatch>>

\* new_debouncer(..) fails: map_err(..)? returns
WatchCreateFail ==
    /\ wpc = "create"
    /\ w_ret' = "err" /\ wpc' = "idle"
    /\ UNCHANGED <<w_inner, w_arg, w_local, w_dirs, w_alive, w_made, notwatch>>

\* blog_dir / apps_dir is no directory: nothing is registered
WatchDirSkip ==
    /\ wpc \in {"blog", "apps"}
    /\ wpc' = IF wpc = "blog" THEN "apps" ELSE "store"
    /\ UNCHANGED <<w_inner, w_arg, w_local, w_dirs, w_ret, w_alive, w_made, notwatch>>

\* watcher.watch(dir, Recursive) succeeds
WatchDirOk ==
    /\ wpc \in {"blog", "apps"}
    /\ w_dirs' = w_dirs \cup {wpc}
    /\ wpc' = IF wpc = "blog" THEN "apps" ELSE "store"
    /\ UNCHANGED <<w_inner, w_arg, w_local, w_ret, w_alive, w_made, notwatch>>

\* watcher.watch(dir) fails: map_err(..)? returns and the local debouncer is dropped
WatchDirFail ==
    /\ wpc \in {"blog", "apps"}
    /\ w_alive' = w_alive \ {w_local}
    /\ w_local' = 0 /\ w_dirs' = {}
    /\ w_ret' = "err" /\ wpc' = "idle"
    /\ UNCHANGED <<w_inner, w_arg, w_made, notwatch>>

\* *guard = Some(WatcherInner { .. }): the value it replaces is dropped; Ok(())
WatchStore ==
    /\ wpc = "store"
    /\ w_inner' = [id |-> w_local, path |-> w_arg, dirs |-> w_dirs]
    /\ w_alive' = w_alive \ {w_inner.id}
    /\ w_local' = 0 /\ w_dirs' = {}
    /\ w_ret' = "ok" /\ wpc' = "idle"
    /\ UNCHANGED <<w_arg, w_made, notwatch>>

\* stop_watching: *guard = None; Ok(())
StopWatching ==
    /\ wpc = "idle"
    /\ w_inner' = NoWatcher
    /\ w_alive' = w_alive \ {w_inner.id}
    /\ w_ret' = "ok" /\ w_arg' = ""
    /\ UNCHANGED <<wpc, w_local, w_dirs, w_made, notwatch>>

(* publish / unpublish (commands.rs)                                        *)
(*                                                                         *)
(* A content file is a record: whether it exists, whether it starts with a *)
(* frontmatter block, and the lines of that block, each `key: value` line  *)
(* a record [key, val] (val is the text after the colon, trimmed).  The    *)
(* body after the block is copied unchanged by both commands and is left   *)
(* out.  git is the head commit and the remote branch, each a map from     *)
(* slug to the version of the content file it holds.  The commands have no *)
(* await inside: a call is one step, and its faults (a read, a write or a  *)
(* git command that fails) are chosen by the environment.                  *)

None == <<>>
Some(v) == <<v>>

Line(k, v) == [key |-> k, val |-> v]
\* the text of a line as it stands in the file
LineText(l) == IF l.val = "" THEN l.key \o ":" ELSE l.key \o ": " \o l.val

NoFile == [exists |-> FALSE, fm |-> FALSE, yaml |-> <<>>]
Unparsable == [exists |-> TRUE, fm |-> FALSE, yaml |-> <<>>]

\* fn assemble_file(yaml, rest)
assemble_file(yaml) == [exists |-> TRUE, fm |-> TRUE, yaml |-> yaml]

\* fn split_frontmatter(content) -> Option<(String, String)>
split_frontmatter(content) ==
    IF content.fm THEN Some(content.yaml) ELSE None

\* fn today_iso(): the local date, %Y-%m-%d
today_iso(d) == "2025-03-0" \o ToString(d)

\* the first line that matches (?m)^key: , 0 when there is none
RECURSIVE FirstLine(_, _, _)
FirstLine(yaml, k, i) ==
    IF i > Len(yaml) THEN 0
    ELSE IF yaml[i].key = k THEN i
    ELSE FirstLine(yaml, k, i + 1)

\* strip_prefix('"').and_then(strip_suffix('"')).or_else(the same with ')
StripQuotes(v) ==
    IF Len(v) >= 2 /\ SubSeq(v, 1, 1) = "\"" /\ SubSeq(v, Len(v), Len(v)) = "\""
    THEN SubSeq(v, 2, Len(v) - 1)
    ELSE IF Len(v) >= 2 /\ SubSeq(v, 1, 1) = "'" /\ SubSeq(v, Len(v), Len(v)) = "'"
    THEN SubSeq(v, 2, Len(v) - 1)
    ELSE v

\* fn get_yaml_field(yaml, key): the regex (?m)^key:\s*(.+)$ ; \s* also
\* crosses the end of a line, so a line with no value captures the next line
RECURSIVE GetFrom(_, _, _)
GetFrom(yaml, k, i) ==
    IF i > Len(yaml) THEN None
    ELSE IF yaml[i].key # k THEN GetFrom(yaml, k, i + 1)
    ELSE IF yaml[i].val # "" THEN Some(StripQuotes(yaml[i].val))
    ELSE IF i < Len(yaml) THEN Some(StripQuotes(LineText(yaml[i + 1])))
    ELSE None

get_yaml_field(yaml, k) == GetFrom(yaml, k, 1)

\* fn get_yaml_bool(yaml, key) -> Option<bool>
get_yaml_bool(yaml, k) ==
    LET val == get_yaml_field(yaml, k) IN
    IF val = None THEN None
    ELSE IF val[1] = "true" THEN Some(TRUE)
    ELSE IF val[1] = "false" THEN Some(FALSE)
    ELSE None

\* fn set_frontmatter_field(yaml, key, value): updates the first match or appends
set_frontmatter_field(yaml, k, v) ==
    LET i == FirstLine(yaml, k, 1) IN
    IF i > 0 THEN [yaml EXCEPT ![i] = Line(k, v)]
    ELSE Append(yaml, Line(k, v))

\* fn insert_field_after(yaml, after_key, key, value)
insert_field_after(yaml, after_key, k, v) ==
    LET i == FirstLine(yaml, after_key, 1) IN
    IF i > 0
    THEN SubSeq(yaml, 1, i) \o <<Line(k, v)>> \o SubSeq(yaml, i + 1, Len(yaml))
    ELSE Append(yaml, Line(k, v))

\* a variant that finds no publicationDate line
has_pub_date_never(yaml) == FALSE

\* Regex::new(r"(?m)^publicationDate:").is_match(&new_yaml)
has_pub_date(yaml) == FirstLine(yaml, "publicationDate", 1) > 0

\* a variant that takes no entry for published
already_published_never(yaml) == FALSE

\* get_yaml_bool(&yaml, "isDraft") == Some(false)
already_published(yaml) == get_yaml_bool(yaml, "isDraft") = Some(FALSE)

\* get_yaml_bool(&yaml, "isDraft") == Some(true)
already_draft(yaml) == get_yaml_bool(yaml, "isDraft") = Some(TRUE)

ContentSlugs == {"essay", "tool"}
\* the directory a slug lives in: src/content/blog or src/content/apps
ContentType(s) == IF s = "essay" THEN "post" ELSE "app"

\* fn find_content_file(base, slug) -> Result<(PathBuf, String), String>
find_content_file(disk, s) ==
    IF disk[s].exists THEN Ok(<<s, ContentType(s)>>)
    ELSE Err("No content found for slug \"" \o s \o "\".")

\* fn parse_content_entry(slug, content_type, file_path) -> Option<ContentEntry>
parse_content_entry(s, content_type, file, unreadable) ==
    IF unreadable \/ ~file.exists THEN None
    ELSE IF split_frontmatter(file) = None THEN None
    ELSE LET is_draft_val == get_yaml_bool(file.yaml, "isDraft") IN
         Some([slug |-> s,
               content_type |-> content_type,
               is_draft |-> IF is_draft_val = None THEN TRUE ELSE is_draft_val[1],
               created_date |-> get_yaml_field(file.yaml, "createdDate"),
               publication_date |-> get_yaml_field(file.yaml, "publicationDate")])

\* Option::ok_or_else
ok_or(opt, e) == IF opt = None THEN Err(e) ELSE Ok(opt[1])

\* fn git_add_commit_push(repo_path, rel_path, message): add, commit, push,
\* stopping at the first command that fails
git_add_commit_push(g, disk, s, o) ==
    LET committed == [g.head EXCEPT ![s] = disk[s]] IN
    IF o = "add"
    THEN [head |-> g.head, remote |-> g.remote,
          ran |-> <<"add">>, res |-> Err("git add failed")]
    ELSE IF o = "commit"
    THEN [head |-> g.head, remote |-> g.remote,
          ran |-> <<"add", "commit">>, res |-> Err("git commit failed")]
    ELSE IF o = "push"
    THEN [head |-> committed, remote |-> g.remote,
          ran |-> <<"add", "commit", "push">>, res |-> Err("git push failed")]
    ELSE [head |-> committed, remote |-> committed,
          ran |-> <<"add", "commit", "push">>, res |-> Ok(<<>>)]

\* a variant that puts the file back when git fails
disk_after_git_restoring(before, written, res) ==
    IF res.ok THEN written ELSE before

\* git_add_commit_push(..)? : on an error the call returns at once, the file
\* stays as fs::write left it
disk_after_git(before, written, res) == written

\* a call that returns r having changed nothing
Untouched(st, r) ==
    [disk |-> st.disk, head |-> st.head, remote |-> st.remote,
     ret |-> r, ran |-> <<>>, wrote |-> FALSE, stamped |-> FALSE]

\* the part of publish and unpublish from fs::write on
WriteAndPush(st, s, o, new_yaml, stamp, what) ==
    IF o = "write" THEN Untouched(st, Err("write failed"))
    ELSE LET written == [st.disk EXCEPT ![s] = assemble_file(new_yaml)]
             g == git_add_commit_push(st, written, s, o)
             disk == disk_after_git(st.disk, written, g.res)
         IN  [disk |-> disk, head |-> g.head, remote |-> g.remote,
              ret |-> IF ~g.res.ok THEN g.res
                      ELSE ok_or(parse_content_entry(s, ContentType(s), disk[s], o = "parse"),
                                 "Failed to parse entry after " \o what \o "."),
              ran |-> g.ran, wrote |-> TRUE, stamped |-> stamp]

\* pub async fn publish(repo_path, slug) -> Result<ContentEntry, String>
publish(st, s, o, today) ==
    LET found == find_content_file(st.disk, s)
        content == st.disk[s]
    IN
    IF ~found.ok THEN Untouched(st, Err(found.err))
    ELSE IF o = "read" THEN Untouched(st, Err("read failed"))
    ELSE IF split_frontmatter(content) = None
    THEN Untouched(st, Err("Could not parse frontmatter."))
    ELSE IF already_published(content.yaml)
    THEN Untouched(st, ok_or(parse_content_entry(s, found.val[2], content, o = "parse"),
                             "Failed to parse entry."))
    ELSE LET flagged == set_frontmatter_field(content.yaml, "isDraft", "false")
             stamp == ~has_pub_date(flagged)
             new_yaml == IF stamp
                         THEN insert_field_after(flagged, "createdDate", "publicationDate",
                                                 "\"" \o today_iso(today) \o "\"")
                         ELSE flagged
         IN  WriteAndPush(st, s, o, new_yaml, stamp, "publish")

\* pub async fn unpublish(repo_path, slug) -> Result<ContentEntry, String>
unpublish(st, s, o) ==
    LET found == find_content_file(st.disk, s)
        content == st.disk[s]
    IN
    IF ~found.ok THEN Untouched(st, Err(found.err))
    ELSE IF o = "read" THEN Untouched(st, Err("read failed"))
    ELSE IF split_frontmatter(content) = None
    THEN Untouched(st, Err("Could not parse frontmatter."))
    ELSE IF already_draft(content.yaml)
    THEN Untouched(st, ok_or(parse_content_entry(s, found.val[2], content, o = "parse"),
                             "Failed to parse entry."))
    ELSE WriteAndPush(st, s, o, set_frontmatter_field(content.yaml, "isDraft", "true"),
                      FALSE, "unpublish")

\* the days the local clock goes through
MaxDate == 2
\* what can go wrong in a call: nothing, or the first step that fails
Faults == {"none", "read", "write", "add", "commit", "push", "parse"}

\* a draft as create_post and create_app write it
FreshDraft ==
    assemble_file(<<Line("title", "\"A\""), Line("summary", "\"a\""),
                    Line("createdDate", "2025-02-01"), Line("isDraft", "true"),
                    Line("tags", "[]")>>)

\* the content files a repository holds when the panel opens it
Templates ==
    { FreshDraft,
      \* published by hand, with its date
      assemble_file(<<Line("title", "\"B\""), Line("createdDate", "2025-02-01"),
                      Line("publicationDate", "2025-02-02"), Line("isDraft", "false")>>),
      \* published by hand, without a date
      assemble_file(<<Line("title", "\"C\""), Line("createdDate", "2025-02-01"),
                      Line("isDraft", "false")>>),
      \* no isDraft and no createdDate line
      assemble_file(<<Line("title", "\"D\"")>>),
      \* isDraft is not a boolean, the date line has no value
      assemble_file(<<Line("title", "\"E\""), Line("isDraft", "yes"),
                      Line("publicationDate", "")>>),
      Unparsable, NoFile }

NoCall == [op |-> "none", slug |-> "", before |-> NoFile, ret |-> Ok(<<>>),
           ran |-> <<>>, wrote |-> FALSE]

ContentIdle ==
    /\ c_disk = [s \in ContentSlugs |-> NoFile]
    /\ c_head = c_disk /\ c_remote = c_disk
    /\ c_today = 1 /\ c_last = NoCall
    /\ c_stamps = [s \in ContentSlugs |-> <<>>]

ContentState == [disk |-> c_disk, head |-> c_head, remote |-> c_remote]

ContentCall(op, s, r) ==
    /\ c_disk' = r.disk /\ c_head' = r.head /\ c_remote' = r.remote
    /\ c_last' = [op |-> op, slug |-> s, before |-> c_disk[s], ret |-> r.ret,
                  ran |-> r.ran, wrote |-> r.wrote]
    /\ c_stamps' = IF r.stamped THEN [c_stamps EXCEPT ![s] = Append(@, c_today)]
                   ELSE c_stamps
    /\ UNCHANGED <<c_today, notcontent>>

Publish(s, o) == ContentCall("publish", s, publish(ContentState, s, o, c_today))

Unpublish(s, o) == ContentCall("unpublish", s, unpublish(ContentState, s, o))

\* midnight passes
NextDay ==
    /\ c_today < MaxDate
    /\ c_today' = c_today + 1
    /\ UNCHANGED <<c_disk, c_head, c_remote, c_last, c_stamps, notcontent>>

(* delete_content (content.rs)                                              *)
(*                                                                         *)
(* The working tree is the set of directories under src/content, each a    *)
(* sequence of names (<<"blog", "hello">> is src/content/blog/hello); git  *)
(* is the set of directories of the head commit and of the remote branch.  *)
(* Paths are resolved as on Unix: "/" separates names, "\" is a character  *)
(* like any other, an empty name and "." stand for the directory itself,   *)
(* ".." for its parent.                                                    *)

\* str::contains
contains(s, sub) ==
    \E i \in 1..(Len(s) - Len(sub) + 1) : SubSeq(s, i, i + Len(sub) - 1) = sub

\* the names of a relative path, split at "/"
RECURSIVE SplitFrom(_, _, _, _)
SplitFrom(s, i, cur, acc) ==
    IF i > Len(s) THEN Append(acc, cur)
    ELSE IF SubSeq(s, i, i) = "/" THEN SplitFrom(s, i + 1, "", Append(acc, cur))
    ELSE SplitFrom(s, i + 1, cur \o SubSeq(s, i, i), acc)

\* the directory that dir followed by the names of comps denotes
RECURSIVE Walk(_, _, _)
Walk(dir, comps, i) ==
    IF i > Len(comps) THEN dir
    ELSE IF comps[i] = "" \/ comps[i] = "." THEN Walk(dir, comps, i + 1)
    ELSE IF comps[i] = ".."
    THEN Walk(IF dir = <<>> THEN dir ELSE SubSeq(dir, 1, Len(dir) - 1), comps, i + 1)
    ELSE Walk(Append(dir, comps[i]), comps, i + 1)

\* base.join("src/content/blog").join(slug), as the file system resolves it
join(dir, slug) == Walk(dir, SplitFrom(slug, 1, "", <<>>), 1)

\* d is p or lies under p
Under(p, d) == Len(d) >= Len(p) /\ SubSeq(d, 1, Len(p)) = p

\* Path::is_dir
is_dir(dirs, p) == p \in dirs

\* fs::remove_dir_all: the directory and all it holds; when it fails it has
\* removed nothing, or what the directory held and not the directory
remove_dir_all(dirs, p, o) ==
    IF o = "remove" THEN dirs
    ELSE IF o = "remove_inside" THEN {d \in dirs : ~Under(p, d) \/ d = p}
    ELSE {d \in dirs : ~Under(p, d)}

\* a variant that accepts every slug
invalid_slug_never(slug) == FALSE

\* slug.contains("..") || slug.contains('/') || slug.contains('\\')
invalid_slug(slug) ==
    contains(slug, "..") \/ contains(slug, "/") \/ contains(slug, "\\")

\* git::git_add_commit_push(repo_path, rel_path, message) for a removed directory
git_delete(g, dirs, p, o) ==
    LET committed == {d \in g.head : ~Under(p, d) \/ d \in dirs} IN
    IF o = "add"
    THEN [head |-> g.head, remote |-> g.remote,
          ran |-> <<"add">>, res |-> Err("git add failed")]
    ELSE IF o = "commit"
    THEN [head |-> g.head, remote |-> g.remote,
          ran |-> <<"add", "commit">>, res |-> Err("git commit failed")]
    ELSE IF o = "push"
    THEN [head |-> committed, remote |-> g.remote,
          ran |-> <<"add", "commit", "push">>, res |-> Err("git push failed")]
    ELSE [head |-> committed, remote |-> committed,
          ran |-> <<"add", "commit", "push">>, res |-> Ok(<<>>)]

\* one of the two branches of delete_content: remove the directory, then git
RemoveAndPush(st, p, slug, o, what) ==
    LET dirs == remove_dir_all(st.dirs, p, o) IN
    IF o \in {"remove", "remove_inside"}
    THEN [dirs |-> dirs, head |-> st.head, remote |-> st.remote, ran |-> <<>>,
          ret |-> Err("Failed to delete " \o what \o " directory '" \o slug \o "'")]
    ELSE LET g == git_delete(st, dirs, p, o) IN
         [dirs |-> dirs, head |-> g.head, remote |-> g.remote, ran |-> g.ran,
          ret |-> g.res]

\* pub fn delete_content(repo_path: &str, slug: &str) -> Result<(), String>
delete_content(st, slug, o) ==
    IF invalid_slug(slug)
    THEN [dirs |-> st.dirs, head |-> st.head, remote |-> st.remote, ran |-> <<>>,
          ret |-> Err("Invalid slug")]
    ELSE LET blog_dir == join(<<"blog">>, slug)
             app_dir == join(<<"apps">>, slug)
         IN  IF is_dir(st.dirs, blog_dir) THEN RemoveAndPush(st, blog_dir, slug, o, "blog")
             ELSE IF is_dir(st.dirs, app_dir) THEN RemoveAndPush(st, app_dir, slug, o, "app")
             ELSE [dirs |-> st.dirs, head |-> st.head, remote |-> st.remote, ran |-> <<>>,
                   ret |-> Err("No content found for slug \"" \o slug \o "\".")]

\* the slugs the command is called with
DeleteSlugs ==
    {"hello", "calc", "both", "gone", "", "..", "../pages", "hello/img",
     "/blog", "hello\\img", "a..b"}

\* the directories every repository has, and those it may have
ContentRoots == {<<"blog">>, <<"apps">>, <<"pages">>}
Entries == {<<"blog", "hello">>, <<"blog", "both">>, <<"apps", "calc">>, <<"apps", "both">>}
Assets == {<<"blog", "hello", "img">>}

DeleteFaults == {"none", "remove", "remove_inside", "add", "commit", "push"}

NoDelete == [slug |-> "", before |-> {}, ret |-> Ok(<<>>), ran |-> <<>>]

DeleteIdle ==
    /\ x_dirs = ContentRoots /\ x_head = x_dirs /\ x_remote = x_dirs
    /\ x_last = NoDelete

DeleteContent(slug, o) ==
    LET r == delete_content([dirs |-> x_dirs, head |-> x_head, remote |-> x_remote], slug, o) IN
    /\ x_dirs' = r.dirs /\ x_head' = r.head /\ x_remote' = r.remote
    /\ x_last' = [slug |-> slug, before |-> x_dirs, ret |-> r.ret, ran |-> r.ran]
    /\ UNCHANGED notdelete

-----------------------------------------------------------------------------
\* the desktop commands at start
SideIdle == DevIdle /\ WatchIdle /\ ContentIdle /\ DeleteIdle

-----------------------------------------------------------------------------
(* fetch_analytics, from await to await *)

MaxDays == 12
DaysSet == 1..MaxDays

\* instants for Utc::now(): midnight, midday and the last second of day 20
NowSet == { [secs |-> 20 * 86400, nanos |-> 0],
            [secs |-> 20 * 86400 + 45296, nanos |-> 500000000],
            [secs |-> 20 * 86400 + 86399, nanos |-> 999999999] }

NoResult == [ok |-> FALSE, val |-> <<>>, err |-> ""]

AnalyticsIdle ==
    /\ pc = "idle" /\ days = 0 /\ engagement = FALSE /\ now = [secs |-> 0, nanos |-> 0]
    /\ main_zone = <<>> /\ chunk_start = 0 /\ path_map = EmptyMap
    /\ adaptive_country_map = EmptyMap /\ sent = <<>> /\ received = <<>>
    /\ inflight = 0 /\ result = NoResult

\* entry: read the clock, build the main query, hand it to graphql_query
Call(ds, eng, n) ==
    /\ pc = "idle"
    /\ days' = ds /\ engagement' = eng /\ now' = n
    /\ sent' = <<MainQuery(n, ds, eng)>>
    /\ inflight' = 1
    /\ pc' = "main_wait"
    /\ UNCHANGED <<main_zone, chunk_start, path_map, adaptive_country_map, received,
                   result, pvars, zvars, svars>>

\* a variant that goes on with an empty zone when the response has none
MainReplyLenient(t) ==
    /\ pc = "main_wait"
    /\ inflight' = inflight - 1
    /\ LET r == graphql_query(t) IN
       IF ~r.ok
       THEN /\ result' = Err(r.err) /\ pc' = "done"
            /\ UNCHANGED <<main_zone, chunk_start>>
       ELSE /\ main_zone' = IF Len(ZonesOf(r.val)) = 0 THEN <<>> ELSE ZonesOf(r.val)[1]
            /\ chunk_start' = 0
            /\ pc' = "chunk"
            /\ UNCHANGED result
    /\ received' = Append(received, t)
    /\ UNCHANGED <<days, engagement, now, path_map, adaptive_country_map, sent, pvars, zvars, svars>>

\* graphql_query(main_query).await? and main_zone
MainReply(t) ==
    /\ pc = "main_wait"
    /\ inflight' = inflight - 1
    /\ LET r == graphql_query(t) IN
       IF ~r.ok
       THEN /\ result' = Err(r.err) /\ pc' = "done"
            /\ UNCHANGED <<main_zone, chunk_start>>
       ELSE IF Len(ZonesOf(r.val)) = 0
       THEN /\ result' = Err("No zone data returned") /\ pc' = "done"
            /\ UNCHANGED <<main_zone, chunk_start>>
       ELSE /\ main_zone' = ZonesOf(r.val)[1]
            /\ chunk_start' = 0
            /\ pc' = "chunk"
            /\ UNCHANGED result
    /\ received' = Append(received, t)
    /\ UNCHANGED <<days, engagement, now, path_map, adaptive_country_map, sent, pvars, zvars, svars>>

\* a variant that hands the queries of this chunk and the next to the network at once
ChunkSendConcurrent ==
    /\ pc = "chunk" /\ chunk_start < days
    /\ sent' = IF chunk_start + CHUNK_DAYS < days
               THEN sent \o <<ChunkQuery(now, days, engagement, chunk_start),
                              ChunkQuery(now, days, engagement, chunk_start + CHUNK_DAYS)>>
               ELSE Append(sent, ChunkQuery(now, days, engagement, chunk_start))
    /\ inflight' = IF chunk_start + CHUNK_DAYS < days THEN inflight + 2 ELSE inflight + 1
    /\ pc' = "chunk_wait"
    /\ UNCHANGED <<days, engagement, now, main_zone, chunk_start, path_map,
                   adaptive_country_map, received, result, pvars, zvars, svars>>

\* one turn of the breakdown loop up to its await
ChunkSend ==
    /\ pc = "chunk" /\ chunk_start < days
    /\ sent' = Append(sent, ChunkQuery(now, days, engagement, chunk_start))
    /\ inflight' = inflight + 1
    /\ pc' = "chunk_wait"
    /\ UNCHANGED <<days, engagement, now, main_zone, chunk_start, path_map,
                   adaptive_country_map, received, result, pvars, zvars, svars>>

\* a variant that sends the query of a failed chunk a second time
ChunkReplyRetrying(t) ==
    /\ pc = "chunk_wait"
    /\ inflight' = inflight - 1
    /\ received' = Append(received, t)
    /\ LET maps == MergeChunk([p |-> path_map, c |-> adaptive_country_map], t,
                              chunk_start, chunk_end(chunk_start, days), engagement)
       IN /\ path_map' = maps.p
          /\ adaptive_country_map' = maps.c
    /\ chunk_start' = IF ~graphql_query(t).ok /\ sent[Len(sent) - 1] # sent[Len(sent)]
                      THEN chunk_start ELSE chunk_start + CHUNK_DAYS
    /\ pc' = "chunk"
    /\ UNCHANGED <<days, engagement, now, main_zone, sent, result, pvars, zvars, svars>>

\* the rest of the turn: merge the answer, step the loop variable
ChunkReply(t) ==
    /\ pc = "chunk_wait"
    /\ inflight' = inflight - 1
    /\ received' = Append(received, t)
    /\ LET maps == MergeChunk([p |-> path_map, c |-> adaptive_country_map], t,
                              chunk_start, chunk_end(chunk_start, days), engagement)
       IN /\ path_map' = maps.p
          /\ adaptive_country_map' = maps.c
    /\ chunk_start' = chunk_start + CHUNK_DAYS
    /\ pc' = "chunk"
    /\ UNCHANGED <<days, engagement, now, main_zone, sent, result, pvars, zvars, svars>>

\* after the loop: parse the main zone, build the series, assemble the report
Finish(ord) ==
    /\ pc = "chunk" /\ chunk_start >= days
    /\ result' = Ok(Assemble(main_zone, path_map, adaptive_country_map, now, days,
                             engagement, ord))
    /\ pc' = "done"
    /\ UNCHANGED <<days, engagement, now, main_zone, chunk_start, path_map,
                   adaptive_country_map, sent, received, inflight, pvars, zvars, svars>>

Init == AnalyticsIdle /\ PathIdle /\ zpc = "idle" /\ domain = "" /\ zone_received = <<>>
        /\ zone_result = NoResult /\ SideIdle

Next ==
    \/ \E ds \in DaysSet, eng \in BOOLEAN, n \in NowSet : Call(ds, eng, n)
    \/ pc = "main_wait" /\ \E t \in MainAnswers(sent[1], now, days) : MainReply(t)
    \/ ChunkSend
    \/ pc = "chunk_wait" /\ \E t \in ChunkAnswers(sent[Len(sent)]) : ChunkReply(t)
    \/ \E o \in IterOrders : Finish([p |-> o, c |-> o, s |-> o, b |-> o])

Spec == Init /\ [][Next]_vars

-----------------------------------------------------------------------------
(* fetch_zone_id.  The members it reads may hold any JSON value, so the value *)
(* of "result" and of "id" is tagged with its JSON type: [t, v].              *)

JNull == [t |-> "null", v |-> <<>>]
JStr(x) == [t |-> "str", v |-> x]
JNum(x) == [t |-> "num", v |-> x]
JArr(x) == [t |-> "arr", v |-> x]

\* o[k] of serde_json: Null when the key is missing
Index(o, k) == IF Has(o, k) THEN o[k] ELSE JNull

\* a variant that takes the first zone that has an id
RECURSIVE FirstWithId(_, _)
FirstWithId(arr, i) ==
    IF i > Len(arr) THEN 0
    ELSE IF Index(arr[i], "id").t = "str" THEN i ELSE FirstWithId(arr, i + 1)
fetch_zone_id_any_zone(t, dom) ==
    IF t.send = "err" THEN Err("Failed to fetch zones")
    ELSE IF t.json = "err" THEN Err("Failed to parse zones response")
    ELSE LET res == Index(t.resp, "result")
             i == IF res.t = "arr" THEN FirstWithId(res.v, 1) ELSE 0
         IN IF i > 0 THEN Ok(res.v[i].id.v)
            ELSE Err("No zone found for domain '" \o dom \o "'")

\* pub async fn fetch_zone_id: t is what the network did with the GET
fetch_zone_id(t, dom) ==
    IF t.send = "err" THEN Err("Failed to fetch zones")
    ELSE IF t.json = "err" THEN Err("Failed to parse zones response")
    ELSE LET res == Index(t.resp, "result") IN
         IF /\ res.t = "arr"
            /\ Len(res.v) > 0
            /\ Index(res.v[1], "id").t = "str"
         THEN Ok(Index(res.v[1], "id").v)
         ELSE Err("No zone found for domain '" \o dom \o "'")

\* the domains asked for
Domains == {"fpl0.io", "www.fpl0.io", "example.com", "EXAMPLE.com", "it's.example", ""}

\* zones as the Zones API lists them
Zone(id, name) == [id |-> JStr(id), name |-> JStr(name)]
\* what the Zones API may answer
ZoneAnswers ==
    { [send |-> "err", json |-> "ok", resp |-> <<>>],
      [send |-> "ok", json |-> "err", resp |-> <<>>] }
    \cup
    { [send |-> "ok", json |-> "ok", resp |-> r] : r \in
        { [success |-> JStr("false")],
          [errors |-> JArr(<<>>)],
          [result |-> JNull],
          [result |-> JStr("z1")],
          [result |-> JNum(1)],
          [result |-> JArr(<<>>)],
          [result |-> JArr(<<[name |-> JStr("fpl0.io")]>>)],
          [result |-> JArr(<<[id |-> JNull, name |-> JStr("fpl0.io")]>>)],
          [result |-> JArr(<<[id |-> JNum(7)]>>)],
          [result |-> JArr(<<[id |-> JArr(<<>>)]>>)],
          [result |-> JArr(<<[name |-> JStr("a")], Zone("z2", "b")>>)],
          [result |-> JArr(<<[id |-> JNum(7)], Zone("z1", "b")>>)],
          [result |-> JArr(<<Zone("z1", "fpl0.io")>>)],
          [result |-> JArr(<<Zone("z2", "example.com")>>)],
          [result |-> JArr(<<Zone("", "fpl0.io")>>)],
          [result |-> JArr(<<Zone("z1", "fpl0.io"), Zone("z2", "fpl0.io")>>)],
          [result |-> JArr(<<Zone("z2", "fpl0.io"), Zone("z1", "fpl0.io")>>)],
          [result |-> JArr(<<Zone("z1", "a"), [name |-> JStr("b")]>>)],
          [result |-> JArr(<<Zone("z3", "a")>>), errors |-> JArr(<<JStr("partial")>>)] } }

ZoneIdle ==
    /\ zpc = "idle" /\ domain = "" /\ zone_received = <<>> /\ zone_result = NoResult

\* entry: the GET is sent
ZoneCall(dom) ==
    /\ zpc = "idle"
    /\ domain' = dom
    /\ zpc' = "wait"
    /\ UNCHANGED <<zone_received, zone_result, avars, pvars, svars>>

\* the answer arrives and the call returns
ZoneReply(t) ==
    /\ zpc = "wait"
    /\ zone_received' = t
    /\ zone_result' = fetch_zone_id(t, domain)
    /\ zpc' = "done"
    /\ UNCHANGED <<domain, avars, pvars, svars>>

-----------------------------------------------------------------------------
(* Vocabulary of the properties *)

Returned == pc = "done"
ReturnedReport == pc = "done" /\ result.ok
Report == result.val

\* the three ways a query fails: network, unparsable body, non-empty error list
NetworkFailure(t) == t.send = "err"
UnparsableBody(t) == t.send = "ok" /\ t.json = "err"
ApiReportedError(t) ==
    t.send = "ok" /\ t.json = "ok" /\ Has(t.resp, "errors") /\ Len(t.resp.errors) > 0
QueryFailed(t) == NetworkFailure(t) \/ UnparsableBody(t) \/ ApiReportedError(t)

MainAnswered == Len(received) >= 1
\* the breakdown loop has run to its end
LoopOver == (pc = "chunk" /\ chunk_start >= days) \/ ReturnedReport
\* the chunk queries sent so far, and the answers to them
ChunkQueries == SubSeq(sent, 2, Len(sent))
ChunkReplies == SubSeq(received, 2, Len(received))

RECURSIVE SeriesSum(_, _)
SeriesSum(v, k) == IF k = 0 THEN 0 ELSE SeriesSum(v, k - 1) + v[k].count

NonIncreasing(v, Count(_)) ==
    \A i \in 1..Len(v) - 1 : Count(v[i]) >= Count(v[i + 1])
CountOf(e) == e.count
PageViewsOf(e) == e.page_views

-----------------------------------------------------------------------------
(* C1: when the main totals query fails by a network failure, an unparsable   *)
(* body or a non-empty error list, the call returns an error, no report, and  *)
(* no breakdown query was sent, for every days and both modes.                *)
C1_MainFailureIsFatal ==
    (MainAnswered /\ QueryFailed(received[1])) =>
        /\ Returned
        /\ ~result.ok
        /\ result.err # ""
        /\ Len(sent) = 1

\* the API reported an error next to usable data, and the call returned
C1_Witness ==
    /\ Returned /\ MainAnswered /\ ApiReportedError(received[1])
    /\ Len(ZonesOf(received[1].resp)) > 0
    /\ ~result.ok

-----------------------------------------------------------------------------
(* C2: once the main query succeeded, any set of failing chunks still gives a *)
(* report; a failed chunk adds nothing to the path and country maps, the      *)
(* other chunks' entries are kept, and the series, the total, the status      *)
(* codes and the browsers are those of the main response alone.               *)

\* the maps after the first k chunk answers, failed ones skipped
RECURSIVE MapsOfSucceeded(_)
MapsOfSucceeded(k) ==
    IF k = 0 THEN [p |-> EmptyMap, c |-> EmptyMap]
    ELSE LET prev == MapsOfSucceeded(k - 1)
             t == ChunkReplies[k]
             q == ChunkQueries[k]
         IN IF QueryFailed(t) \/ Len(ZonesOf(t.resp)) = 0 THEN prev
            ELSE LET st == MergeZone([d |-> q.chunk_start, p |-> prev.p, c |-> prev.c],
                                     ZonesOf(t.resp)[1], q.chunk_end, engagement)
                 IN [p |-> st.p, c |-> st.c]

\* the report of the call in which every chunk answers with an empty zone
ReportOfMainAlone(o) ==
    Assemble(main_zone, EmptyMap, EmptyMap, now, days, engagement,
             [p |-> o, c |-> o, s |-> o, b |-> o])

C2_ChunkFailureIsIsolated ==
    /\ LET m == MapsOfSucceeded(Len(ChunkReplies)) IN
          /\ DOMAIN path_map = DOMAIN m.p
          /\ \A k \in DOMAIN path_map : path_map[k] = m.p[k]
          /\ DOMAIN adaptive_country_map = DOMAIN m.c
          /\ \A k \in DOMAIN adaptive_country_map : adaptive_country_map[k] = m.c[k]
    /\ (Returned /\ Len(received) > 1) =>
          /\ result.ok
          /\ \E o \in IterOrders :
                LET alone == ReportOfMainAlone(o) IN
                /\ Report.daily_requests = alone.daily_requests
                /\ Report.total_requests = alone.total_requests
                /\ Report.status_codes = alone.status_codes
                /\ Report.browsers = alone.browsers

\* a report after a failed first chunk and a second chunk that brought paths
C2_Witness ==
    /\ ReturnedReport /\ Len(received) >= 3
    /\ QueryFailed(received[2]) /\ ~QueryFailed(received[3])
    /\ DOMAIN path_map # {}
    /\ Len(Report.top_paths) > 0

-----------------------------------------------------------------------------
(* C3: in every report total_requests is the sum of the counts of the slots   *)
(* of the returned series.                                                    *)
C3_TotalIsSumOfSlots ==
    ReturnedReport =>
        Report.total_requests = SeriesSum(Report.daily_requests, Len(Report.daily_requests))

\* a report whose main response had counts under keys that are no slot of the series
C3_Witness ==
    /\ ReturnedReport
    /\ Report.total_requests > 0
    /\ SumMapCount(ParseMain(main_zone, days = 1, engagement).daily_map)
          > Report.total_requests

-----------------------------------------------------------------------------
(* C4: for days = 1 the series has 24 slots labelled with the hours           *)
(* now-23h .. now, truncated to the hour, strictly increasing, all distinct.  *)
C4_HourlySeries ==
    (ReturnedReport /\ days = 1) =>
        LET v == Report.daily_requests IN
        /\ Len(v) = 24
        /\ \A i \in 1..24 :
              /\ v[i].date.fmt = "rfc3339" /\ v[i].date.off = 0
              /\ v[i].date.n = ((now.secs - (24 - i) * 3600) \div 3600) * 3600
              /\ v[i].date.n % 3600 = 0
        /\ \A i \in 1..23 : v[i + 1].date.n = v[i].date.n + 3600
        /\ \A i, j \in 1..24 : i # j => v[i].date # v[j].date
        /\ v[24].date.n <= now.secs /\ now.secs < v[24].date.n + 3600

\* an hourly report from a main response with labels outside the 24 hours
C4_Witness ==
    /\ ReturnedReport /\ days = 1
    /\ \E k \in DOMAIN ParseMain(main_zone, TRUE, engagement).daily_map :
          \A i \in 1..24 : Report.daily_requests[i].date # k
    /\ \E i \in 1..24 : Report.daily_requests[i].count > 0

-----------------------------------------------------------------------------
(* C5: for days = D > 1 the series has D slots labelled with the consecutive  *)
(* dates from date(now - (D-1) days) to date(now), strictly increasing.       *)
C5_DailySeries ==
    (ReturnedReport /\ days > 1) =>
        LET v == Report.daily_requests IN
        /\ Len(v) = days
        /\ \A i \in 1..days : v[i].date.fmt = "date" /\ v[i].date.off = 0
        /\ v[1].date.n = (now.secs - (days - 1) * 86400) \div 86400
        /\ \A i \in 1..days - 1 : v[i + 1].date.n = v[i].date.n + 1
        /\ \A i, j \in 1..days : i # j => v[i].date # v[j].date
        /\ v[days].date.n = now.secs \div 86400

\* a daily report from a main response with a date before the period
C5_Witness ==
    /\ ReturnedReport /\ days > 1
    /\ \E k \in DOMAIN ParseMain(main_zone, FALSE, engagement).daily_map :
          k.fmt = "date" /\ k.n < Report.daily_requests[1].date.n
    /\ Report.daily_requests[1].count > 0

-----------------------------------------------------------------------------
(* C6: each of top_paths, top_countries, status_codes and browsers has at     *)
(* most 10 entries, its counts non-increasing from first to last.             *)
C6_TopListsBoundedAndSorted ==
    ReturnedReport =>
        /\ Len(Report.top_paths) <= 10 /\ NonIncreasing(Report.top_paths, CountOf)
        /\ Len(Report.top_countries) <= 10 /\ NonIncreasing(Report.top_countries, CountOf)
        /\ Len(Report.status_codes) <= 10 /\ NonIncreasing(Report.status_codes, CountOf)
        /\ Len(Report.browsers) <= 10 /\ NonIncreasing(Report.browsers, PageViewsOf)

\* more than 10 paths and more than 10 status codes were accumulated
C6_Witness ==
    /\ ReturnedReport
    /\ Cardinality(DOMAIN path_map) > 10
    /\ Cardinality(DOMAIN ParseMain(main_zone, days = 1, engagement).status_map) > 10
    /\ Len(Report.top_paths) = 10 /\ Len(Report.status_codes) = 10
    /\ \E i \in 1..9 : Report.top_paths[i].count > Report.top_paths[i + 1].count

-----------------------------------------------------------------------------
(* C7: the breakdown loop issues ceil(days/5) chunks, in increasing order,    *)
(* pairwise disjoint, covering exactly 0..days, each of size 5 except         *)
(* possibly the last, of size days mod 5 when that is not zero.               *)
C7_ChunkPartition ==
    LET qs == ChunkQueries
        n == Len(qs)
    IN /\ \A k \in 1..n :
             /\ qs[k].chunk_start = 5 * (k - 1)
             /\ qs[k].chunk_start < qs[k].chunk_end
             /\ qs[k].chunk_end <= days
             /\ k < n => (qs[k].chunk_end = qs[k + 1].chunk_start
                          /\ qs[k].chunk_end - qs[k].chunk_start = 5)
       /\ LoopOver =>
             /\ n = (days + 4) \div 5
             /\ qs[1].chunk_start = 0
             /\ qs[n].chunk_end = days
             /\ qs[n].chunk_end - qs[n].chunk_start
                   = (IF days % 5 = 0 THEN 5 ELSE days % 5)

\* days = 12 gave [0,5), [5,10), [10,12)
C7_Witness ==
    /\ LoopOver /\ days = 12 /\ Len(ChunkQueries) = 3
    /\ ChunkQueries[1].chunk_start = 0 /\ ChunkQueries[1].chunk_end = 5
    /\ ChunkQueries[2].chunk_start = 5 /\ ChunkQueries[2].chunk_end = 10
    /\ ChunkQueries[3].chunk_start = 10 /\ ChunkQueries[3].chunk_end = 12

-----------------------------------------------------------------------------
(* C8: every pd/cd filter of every chunk query spans at most 86400 seconds    *)
(* from win_start to win_end.                                                 *)
C8_WindowWithinLimit ==
    \A k \in 1..Len(ChunkQueries) :
        \A i \in 1..Len(ChunkQueries[k].fields) :
            LET f == ChunkQueries[k].fields[i] IN
            /\ f.geq.fmt = "rfc3339" /\ f.leq.fmt = "rfc3339"
            /\ f.geq.n <= f.leq.n
            /\ f.leq.n - f.geq.n <= 86400

\* a chunk query was sent at an instant that is not on a full second
C8_Witness ==
    /\ Len(ChunkQueries) >= 2
    /\ now.nanos > 0 /\ now.secs % 86400 # 0
    /\ \E i \in 1..Len(ChunkQueries[2].fields) :
          ChunkQueries[2].fields[i].leq.n - ChunkQueries[2].fields[i].geq.n = 86400

-----------------------------------------------------------------------------
(* C9: a chunk query holds exactly 2 x (chunk_end - chunk_start) aliased      *)
(* fields, at most 10 and below the cap of 30; the aliases pd{d} and cd{d}    *)
(* are pairwise distinct within a query and across the chunks of a call.      *)
C9_FieldBudget ==
    LET qs == ChunkQueries IN
    /\ \A k \in 1..Len(qs) :
          /\ Len(qs[k].fields) = 2 * (qs[k].chunk_end - qs[k].chunk_start)
          /\ Len(qs[k].fields) <= 10
          /\ Len(qs[k].fields) < 30
          /\ {qs[k].fields[i].alias : i \in 1..Len(qs[k].fields)}
                = {"pd" \o ToString(d) : d \in qs[k].chunk_start..qs[k].chunk_end - 1}
                  \cup {"cd" \o ToString(d) : d \in qs[k].chunk_start..qs[k].chunk_end - 1}
    /\ \A k1, k2 \in 1..Len(qs) :
          \A i1 \in 1..Len(qs[k1].fields), i2 \in 1..Len(qs[k2].fields) :
              (k1 # k2 \/ i1 # i2) => qs[k1].fields[i1].alias # qs[k2].fields[i2].alias

\* three chunk queries, the first with 10 fields and the last with fewer
C9_Witness ==
    /\ Len(ChunkQueries) = 3
    /\ Len(ChunkQueries[1].fields) = 10
    /\ Len(ChunkQueries[3].fields) \in 1..9

-----------------------------------------------------------------------------
(* C10: is_content_path is true exactly for "/" and for the paths whose form  *)
(* without trailing slashes begins with "/blog/", "/apps/", "/about" or       *)
(* "/tags"; the listed examples are classified as stated.                     *)

CharAt(s, i) == SubSeq(s, i, i)
\* the longest prefix of s that does not end in a slash and is followed by slashes only
TrimmedForm(s) ==
    LET n == CHOOSE n \in 0..Len(s) :
                 /\ \A i \in n + 1..Len(s) : CharAt(s, i) = "/"
                 /\ n > 0 => CharAt(s, n) # "/"
    IN SubSeq(s, 1, n)
ContentPrefixes == {"/blog/", "/apps/", "/about", "/tags"}
BeginsWith(s, pre) == \E n \in 0..Len(s) : SubSeq(s, 1, n) = pre

C10_ContentPathPredicate ==
    evaluated =>
        /\ verdict = (path = "/" \/ \E pre \in ContentPrefixes :
                                        BeginsWith(TrimmedForm(path), pre))
        /\ path \in {"/", "/blog/my-post", "/blog/my-post/", "/about", "/about-team",
                     "/tags/rust"} => verdict
        /\ path \in {"/assets/logo.png", "/api/health"} => ~verdict

\* the prefix match of "/about-team" was evaluated
C10_Witness == evaluated /\ path = "/about-team" /\ verdict

-----------------------------------------------------------------------------
(* C11: in Engagement mode no path the content-path predicate rejects is ever *)
(* in the path map or in top_paths, whatever its count and however many       *)
(* chunks report it ("/assets/x.png" with 50 next to "/blog/a" with 10 is     *)
(* left out); in Standard mode every reported path is accumulated.            *)

\* the chunk answers that were merged: no failure, and a first zone
ChunkSucceeded(k) ==
    ~QueryFailed(ChunkReplies[k]) /\ Len(ZonesOf(ChunkReplies[k].resp)) > 0
\* the day indices of chunk k
DaysOfChunk(k) == ChunkQueries[k].chunk_start..ChunkQueries[k].chunk_end - 1
\* the array a merged chunk answer holds under alias pre{d}
FieldOf(k, pre, d) == AsArray(ZonesOf(ChunkReplies[k].resp)[1], pre \o ToString(d))
\* the path an entry of a pd array names
PathOfEntry(e) == AsStrOr(AsObject(e, "dimensions"), "clientRequestPath", "/")
\* every path some merged chunk answer reported
PathsReported ==
    UNION { UNION { {PathOfEntry(FieldOf(k, "pd", d)[i]) :
                        i \in 1..Len(FieldOf(k, "pd", d))} : d \in DaysOfChunk(k) } :
            k \in {j \in 1..Len(ChunkReplies) : ChunkSucceeded(j)} }

C11_EngagementFilter ==
    /\ engagement =>
          /\ \A p \in DOMAIN path_map : is_content_path(p)
          /\ {p \in PathsReported : is_content_path(p)} = DOMAIN path_map
          /\ "/assets/x.png" \notin DOMAIN path_map
    /\ (ReturnedReport /\ engagement) =>
          \A i \in 1..Len(Report.top_paths) :
              /\ is_content_path(Report.top_paths[i].path)
              /\ Report.top_paths[i].path # "/assets/x.png"
    /\ ~engagement => PathsReported = DOMAIN path_map

\* Engagement report after two chunks that both reported "/assets/x.png"
C11_Witness ==
    /\ ReturnedReport /\ engagement /\ Len(ChunkReplies) >= 2
    /\ ChunkSucceeded(1) /\ ChunkSucceeded(2)
    /\ "/assets/x.png" \in PathsReported
    /\ \E i \in 1..Len(Report.top_paths) : Report.top_paths[i].path = "/blog/a"

-----------------------------------------------------------------------------
(* C12: the labels of the returned series are computed from now and days      *)
(* only, never from the keys of the slot map: a label absent from the map     *)
(* gives a slot with count, bytes, cached_bytes, cached_requests and threats  *)
(* all zero, a label present gives exactly the values accumulated under it.   *)

\* the slot map the call accumulated from its main zone
SlotMap == ParseMain(main_zone, days = 1, engagement).daily_map
\* the label of slot i (1-based) as the period alone determines it
ExpectedLabel(i) ==
    IF days = 1
    THEN [fmt |-> "rfc3339", n |-> ((now.secs - (24 - i) * 3600) \div 3600) * 3600,
          off |-> 0]
    ELSE [fmt |-> "date", n |-> (now.secs - (days - i) * 86400) \div 86400, off |-> 0]
ExpectedSlots == IF days = 1 THEN 24 ELSE days

C12_LabelsFromPeriod ==
    ReturnedReport =>
        LET v == Report.daily_requests
            dm == SlotMap
        IN /\ Len(v) = ExpectedSlots
           /\ \A i \in 1..Len(v) :
                 /\ v[i].date = ExpectedLabel(i)
                 /\ IF v[i].date \in DOMAIN dm
                    THEN /\ v[i].count = dm[v[i].date].count
                         /\ v[i].bytes = dm[v[i].date].bytes
                         /\ v[i].cached_bytes = dm[v[i].date].cached_bytes
                         /\ v[i].cached_requests = dm[v[i].date].cached_requests
                         /\ v[i].threats = dm[v[i].date].threats
                    ELSE /\ v[i].count = 0 /\ v[i].bytes = 0 /\ v[i].cached_bytes = 0
                         /\ v[i].cached_requests = 0 /\ v[i].threats = 0

\* a report with a label present in the map, a label absent from it, and a key
\* of the map that is no label
C12_Witness ==
    /\ ReturnedReport
    /\ \E i \in 1..Len(Report.daily_requests) :
          /\ Report.daily_requests[i].date \in DOMAIN SlotMap
          /\ Report.daily_requests[i].bytes > 0
    /\ \E i \in 1..Len(Report.daily_requests) :
          Report.daily_requests[i].date \notin DOMAIN SlotMap
    /\ \E k \in DOMAIN SlotMap :
          \A i \in 1..Len(Report.daily_requests) : Report.daily_requests[i].date # k

-----------------------------------------------------------------------------
(* C13: every query is sent once and never again: a call that obtained its    *)
(* main zone has made exactly 1 + ceil(days/5) analytics calls when it        *)
(* returns, whatever the chunks answered, and a call whose main query failed  *)
(* has made exactly 1 and sent no breakdown query.                            *)

\* the main query gave the call a zone to work on
MainSucceeded ==
    MainAnswered /\ ~QueryFailed(received[1]) /\ Len(ZonesOf(received[1].resp)) > 0

-----------------------------------------------------------------------------
(* C14: when the breakdown query of a chunk is rejected because the zone caps *)
(* adaptive queries at 86400 seconds, the call sends that chunk's query       *)
(* again (with a 24-hour window) before it goes on.                           *)

\* the API rejected the query for its time range
CapRejected(t) ==
    ApiReportedError(t) /\ AsStrOr(t.resp.errors[1], "message", "") = "time range exceeds 86400s"

C14_RetriesOnCap ==
    \A k \in 1..Len(ChunkReplies) :
        (CapRejected(ChunkReplies[k]) /\ (Returned \/ Len(ChunkQueries) > k)) =>
            /\ Len(ChunkQueries) > k
            /\ ChunkQueries[k + 1].chunk_start = ChunkQueries[k].chunk_start

-----------------------------------------------------------------------------
(* C15: the queries of a call are strictly sequential: at no time are two in  *)
(* flight, the main query is answered before the first chunk query is sent,   *)
(* chunk k+1 is sent only after the answer to chunk k was received and        *)
(* merged, and the chunks go out in increasing order.                         *)
C15_SequentialChunks ==
    /\ inflight \in {0, 1}
    /\ Len(sent) - Len(received) = inflight
    /\ Len(sent) >= 2 => MainSucceeded
    /\ \A k \in 1..Len(ChunkQueries) - 1 :
          ChunkQueries[k].chunk_start < ChunkQueries[k + 1].chunk_start
    \* what is merged when a query is in flight is what the answers before it brought
    /\ LET m == MapsOfSucceeded(Len(ChunkReplies)) IN
          [p |-> path_map, c |-> adaptive_country_map] = m

\* the third chunk query is in flight, the first two answers are merged
C15_Witness ==
    /\ pc = "chunk_wait" /\ inflight = 1
    /\ Len(sent) = 4 /\ Len(received) = 3
    /\ ChunkSucceeded(1) /\ ChunkSucceeded(2)
    /\ DOMAIN path_map # {}

-----------------------------------------------------------------------------
(* C16: a main response that arrived, parsed and carries no errors but has    *)
(* an unexpected shape.                                                       *)

\* the main response arrived, is JSON and reports no error
MainWellReceived == MainAnswered /\ ~QueryFailed(received[1])
\* it has no zone element
MainHasNoZone == Len(ZonesOf(received[1].resp)) = 0
\* it has a zone element, and that element lacks the array of time buckets
MainZoneLacksBuckets ==
    Len(ZonesOf(received[1].resp)) > 0 /\ ~Has(ZonesOf(received[1].resp)[1], "daily")

\* C16 as stated: with no zone element, or with a zone element that has no
\* array of time-bucket groups, the call fails and returns no report.
C16_MalformedMainIsFatal ==
    (MainWellReceived /\ (MainHasNoZone \/ MainZoneLacksBuckets)) => ~ReturnedReport

\* C16 as amended: with no zone element the call fails with "No zone data
\* returned" and sends no breakdown query; a zone element without the array of
\* time buckets is accepted, and its report has an all-zero series, a total of
\* 0 and no status codes or browsers.
C16_MissingZoneIsFatal ==
    /\ (MainWellReceived /\ MainHasNoZone) =>
          /\ Returned /\ ~result.ok
          /\ result.err = "No zone data returned"
          /\ Len(sent) = 1
    /\ (MainWellReceived /\ MainZoneLacksBuckets) =>
          /\ pc # "done" \/ result.ok
          /\ ReturnedReport =>
                /\ \A i \in 1..Len(Report.daily_requests) :
                      /\ Report.daily_requests[i].count = 0
                      /\ Report.daily_requests[i].bytes = 0
                      /\ Report.daily_requests[i].cached_bytes = 0
                      /\ Report.daily_requests[i].cached_requests = 0
                      /\ Report.daily_requests[i].threats = 0
                /\ Report.total_requests = 0
                /\ Report.status_codes = <<>>
                /\ Report.browsers = <<>>

\* the call returned an error for a response with an empty error list and no data
C16_Witness ==
    /\ Returned /\ MainWellReceived /\ MainHasNoZone
    /\ Has(received[1].resp, "errors") /\ ~Has(received[1].resp, "data")
    /\ result.err = "No zone data returned"

-----------------------------------------------------------------------------
(* C17: the accumulated count of a path (after the Engagement filter) and of  *)
(* a country is the sum of that key's counts over every day-window of every   *)
(* chunk that succeeded, and the two maps are the same for every order in     *)
(* which the chunks are processed.                                            *)

\* the key an entry of a pd or cd array names, and the count it carries
KeyOfEntry(e, dim, dflt) == AsStrOr(AsObject(e, "dimensions"), dim, dflt)
CountOfEntry(e) == IF Has(e, "count") /\ e.count >= 0 THEN e.count ELSE 0

\* the sum of key's counts over the first i entries of arr
RECURSIVE SumOfArray(_, _, _, _, _)
SumOfArray(arr, i, dim, dflt, key) ==
    IF i = 0 THEN 0
    ELSE SumOfArray(arr, i - 1, dim, dflt, key)
         + (IF KeyOfEntry(arr[i], dim, dflt) = key THEN CountOfEntry(arr[i]) ELSE 0)

\* ... over the day-windows lo..d of chunk k
RECURSIVE SumOfDays(_, _, _, _, _, _, _)
SumOfDays(k, lo, d, pre, dim, dflt, key) ==
    IF d < lo THEN 0
    ELSE SumOfDays(k, lo, d - 1, pre, dim, dflt, key)
         + SumOfArray(FieldOf(k, pre, d), Len(FieldOf(k, pre, d)), dim, dflt, key)

\* ... over the first k chunks, failed ones contributing nothing
RECURSIVE SumOfChunks(_, _, _, _, _)
SumOfChunks(k, pre, dim, dflt, key) ==
    IF k = 0 THEN 0
    ELSE SumOfChunks(k - 1, pre, dim, dflt, key)
         + (IF ChunkSucceeded(k)
            THEN SumOfDays(k, ChunkQueries[k].chunk_start, ChunkQueries[k].chunk_end - 1,
                           pre, dim, dflt, key)
            ELSE 0)

\* every country some merged chunk answer reported
CountriesReported ==
    UNION { UNION { {KeyOfEntry(FieldOf(k, "cd", d)[i], "clientCountryName", "Unknown") :
                        i \in 1..Len(FieldOf(k, "cd", d))} : d \in DaysOfChunk(k) } :
            k \in {j \in 1..Len(ChunkReplies) : ChunkSucceeded(j)} }

\* the orders in which n chunks can be processed
Orders(n) == {f \in [1..n -> 1..n] : \A i, j \in 1..n : i # j => f[i] # f[j]}
\* the maps after merging the answers to chunks f[1], .., f[j] in that order
RECURSIVE MergedInOrder(_, _)
MergedInOrder(f, j) ==
    IF j = 0 THEN [p |-> EmptyMap, c |-> EmptyMap]
    ELSE LET prev == MergedInOrder(f, j - 1)
             q == ChunkQueries[f[j]]
         IN MergeChunk(prev, ChunkReplies[f[j]], q.chunk_start, q.chunk_end, engagement)

C17_SumOverSucceededChunks ==
    (pc = "chunk" /\ chunk_start >= days) =>
        /\ \A p \in PathsReported \cup DOMAIN path_map :
              IF engagement /\ ~is_content_path(p)
              THEN p \notin DOMAIN path_map
              ELSE /\ p \in DOMAIN path_map
                   /\ path_map[p] = SumOfChunks(Len(ChunkReplies), "pd",
                                                "clientRequestPath", "/", p)
        /\ \A c \in CountriesReported \cup DOMAIN adaptive_country_map :
              /\ c \in DOMAIN adaptive_country_map
              /\ adaptive_country_map[c] = SumOfChunks(Len(ChunkReplies), "cd",
                                                       "clientCountryName", "Unknown", c)
        /\ \A f \in Orders(Len(ChunkReplies)) :
              MergedInOrder(f, Len(ChunkReplies))
                 = [p |-> path_map, c |-> adaptive_country_map]

\* three chunks, the second failed, the other two brought different counts for
\* "/blog/a" over several day-windows
C17_Witness ==
    /\ pc = "chunk" /\ chunk_start >= days /\ Len(ChunkReplies) = 3
    /\ ChunkSucceeded(1) /\ ~ChunkSucceeded(2) /\ ChunkSucceeded(3)
    /\ FieldOf(1, "pd", 0) # FieldOf(3, "pd", 10)
    /\ "/blog/a" \in DOMAIN path_map /\ path_map["/blog/a"] > 10
    /\ "US" \in DOMAIN adaptive_country_map /\ adaptive_country_map["US"] > 5

-----------------------------------------------------------------------------
(* C18: when several entries of the main response fall on the same slot key   *)
(* (hourly: the same hour once minutes and seconds are zeroed; daily: the     *)
(* same date string), the slot's count, bytes, cached_bytes, cached_requests  *)
(* and threats are the sums over all those entries, never the last entry's.   *)

\* the entries of the main zone's array of time buckets
MainBuckets == AsArray(main_zone, "daily")
\* the text an entry carries as its timestamp (hourly) or date (daily)
TextOfBucket(e) ==
    LET member == IF days = 1 THEN "datetime" ELSE "date" IN
    IF Has(e, "dimensions") /\ Has(e.dimensions, member) THEN e.dimensions[member]
    ELSE EmptyText
\* the slot a bucket falls on
SlotOfBucket(e) ==
    LET text == TextOfBucket(e) IN
    IF days = 1 /\ text.fmt = "rfc3339"
    THEN [fmt |-> "rfc3339", n |-> text.n - (text.n % 3600), off |-> 0]
    ELSE text
\* member f of the sum of a bucket, 0 when it is missing or no u64
SumMember(e, f) ==
    IF Has(e, "sum") /\ Has(e.sum, f) /\ e.sum[f] >= 0 THEN e.sum[f] ELSE 0
\* the sum of member f over those of the first i buckets that fall on slot key
RECURSIVE SumOfBuckets(_, _, _)
SumOfBuckets(i, key, f) ==
    IF i = 0 THEN 0
    ELSE SumOfBuckets(i - 1, key, f)
         + (IF SlotOfBucket(MainBuckets[i]) = key THEN SumMember(MainBuckets[i], f) ELSE 0)

C18_SameSlotIsSummed ==
    ReturnedReport =>
        \A i \in 1..Len(Report.daily_requests) :
            LET slot == Report.daily_requests[i]
                n == Len(MainBuckets)
            IN /\ slot.count = SumOfBuckets(n, slot.date,
                                            IF engagement THEN "pageViews" ELSE "requests")
               /\ slot.bytes = SumOfBuckets(n, slot.date, "bytes")
               /\ slot.cached_bytes = SumOfBuckets(n, slot.date, "cachedBytes")
               /\ slot.cached_requests = SumOfBuckets(n, slot.date, "cachedRequests")
               /\ slot.threats = SumOfBuckets(n, slot.date, "threats")

\* an hourly report in which two buckets with different timestamps of one hour
\* fell on the first slot, which holds the sum of their bytes
C18_Witness ==
    /\ ReturnedReport /\ days = 1
    /\ \E a, b \in 1..Len(MainBuckets) :
          /\ a < b
          /\ TextOfBucket(MainBuckets[a]) # TextOfBucket(MainBuckets[b])
          /\ SlotOfBucket(MainBuckets[a]) = SlotOfBucket(MainBuckets[b])
          /\ SlotOfBucket(MainBuckets[a]) = Report.daily_requests[1].date
          /\ SumMember(MainBuckets[a], "bytes") > 0
          /\ SumMember(MainBuckets[b], "bytes") > 0
          /\ Report.daily_requests[1].bytes
                = SumMember(MainBuckets[a], "bytes") + SumMember(MainBuckets[b], "bytes")

-----------------------------------------------------------------------------
(* C19: the per-day breakdown windows partition the requested period: taken   *)
(* in order of their indices 0..days-1 they are consecutive and gap-free from *)
(* now - days to now, and no instant of the period is covered by two windows. *)

\* the filters of the pd fields sent so far, in the order of their day indices
RECURSIVE WindowsOf(_)
WindowsOf(k) ==
    IF k = 0 THEN <<>>
    ELSE WindowsOf(k - 1)
         \o SelectSeq(ChunkQueries[k].fields, LAMBDA f : f.dimension = "clientRequestPath")
Windows == WindowsOf(Len(ChunkQueries))
\* instant t (in seconds) passes the filter datetime_geq / datetime_leq of window w
Covers(w, t) == w.geq.n <= t /\ t <= w.leq.n
\* the instants at which some window begins or ends
WindowEdges == {Windows[i].geq.n : i \in 1..Len(Windows)}
                  \cup {Windows[i].leq.n : i \in 1..Len(Windows)}

C19_WindowsPartitionPeriod ==
    /\ \A i \in 1..Len(Windows) :
           /\ Windows[i].geq.n = now.secs - (days - (i - 1)) * 86400
           /\ i > 1 => Windows[i].geq.n = Windows[i - 1].leq.n
    /\ LoopOver =>
           /\ Len(Windows) = days
           /\ Windows[1].geq.n = now.secs - days * 86400
           /\ Windows[days].leq.n = now.secs
    /\ \A i, j \in 1..Len(Windows) :
           i # j => ~\E t \in WindowEdges : Covers(Windows[i], t) /\ Covers(Windows[j], t)

-----------------------------------------------------------------------------
(* C20: fetch_zone_id returns the id of the first zone of the lookup result,  *)
(* and returns the error "No zone found for domain '<domain>'" when the       *)
(* result list is absent, empty, or its first element has no string id; the   *)
(* caller receives that error as it is.                                       *)

ZoneReturned == zpc = "done"
\* the answer arrived and is JSON
ZoneAnswerParsed == zone_received.send = "ok" /\ zone_received.json = "ok"
\* the lookup result is a list
ZoneListPresent ==
    Has(zone_received.resp, "result") /\ zone_received.resp.result.t = "arr"
ZoneList == zone_received.resp.result.v
\* element e has an id that is a string
HasStringId(e) == Has(e, "id") /\ e.id.t = "str"
NotFound == "No zone found for domain '" \o domain \o "'"

C20_FirstZoneOrNotFound ==
    (ZoneReturned /\ ZoneAnswerParsed) =>
        /\ ~ZoneListPresent => (~zone_result.ok /\ zone_result.err = NotFound)
        /\ (ZoneListPresent /\ Len(ZoneList) = 0) =>
              (~zone_result.ok /\ zone_result.err = NotFound)
        /\ (ZoneListPresent /\ Len(ZoneList) > 0 /\ ~HasStringId(ZoneList[1])) =>
              (~zone_result.ok /\ zone_result.err = NotFound)
        /\ (ZoneListPresent /\ Len(ZoneList) > 0 /\ HasStringId(ZoneList[1])) =>
              (zone_result.ok /\ zone_result.val = ZoneList[1].id.v)

\* not found although the second zone of the list has an id, for a domain with a quote
C20_Witness ==
    /\ ZoneReturned /\ ZoneAnswerParsed /\ ZoneListPresent
    /\ Len(ZoneList) = 2 /\ ~HasStringId(ZoneList[1]) /\ HasStringId(ZoneList[2])
    /\ domain = "it's.example"
    /\ zone_result = Err("No zone found for domain 'it's.example'")

-----------------------------------------------------------------------------
(* C21: each breakdown list is the top of its merged map: a key appears at    *)
(* most once, with the count the map holds for it after all chunks were       *)
(* merged, and every key of the map that is left out has a count no larger    *)
(* than the count of any key in the list.                                     *)

\* list v (keys read by KeyIn) is the top of map m
IsTopOf(v, m, KeyIn(_), CountIn(_)) ==
    /\ Len(v) = Min(10, Cardinality(DOMAIN m))
    /\ \A i \in 1..Len(v) : KeyIn(v[i]) \in DOMAIN m /\ CountIn(v[i]) = m[KeyIn(v[i])]
    /\ \A i, j \in 1..Len(v) : i # j => KeyIn(v[i]) # KeyIn(v[j])
    /\ \A k \in DOMAIN m \ {KeyIn(v[i]) : i \in 1..Len(v)} :
          \A i \in 1..Len(v) : m[k] <= CountIn(v[i])
PathIn(e) == e.path
CountryIn(e) == e.country
StatusIn(e) == e.status
BrowserIn(e) == e.browser

C21_ListsAreTopOfMaps ==
    ReturnedReport =>
        /\ IsTopOf(Report.top_paths, path_map, PathIn, CountOf)
        /\ IsTopOf(Report.top_countries, adaptive_country_map, CountryIn, CountOf)
        /\ LET parsed == ParseMain(main_zone, days = 1, engagement) IN
           /\ IsTopOf(Report.status_codes, parsed.status_map, StatusIn, CountOf)
           /\ IsTopOf(Report.browsers, parsed.browser_map, BrowserIn, PageViewsOf)

\* a report after three merged chunks whose path map has more than 10 keys, one
\* left out, and whose first path holds a count no single day-window reported
C21_Witness ==
    /\ ReturnedReport /\ Len(ChunkReplies) = 3
    /\ ChunkSucceeded(1) /\ ChunkSucceeded(2) /\ ChunkSucceeded(3)
    /\ Cardinality(DOMAIN path_map) > 10 /\ Len(Report.top_paths) = 10
    /\ Report.top_paths[1].count > 50
    /\ Report.top_paths[1].count > Report.top_paths[10].count
    /\ Cardinality(DOMAIN adaptive_country_map) > 10

-----------------------------------------------------------------------------
(* C22: the index pages of the content sections are content paths:            *)
(* is_content_path accepts "/blog", "/blog/", "/apps" and "/apps/" just as it *)
(* accepts "/about", "/about/", "/tags" and "/tags/".                         *)
SectionIndexPages == {"/blog", "/blog/", "/apps", "/apps/", "/about", "/about/", "/tags",
                      "/tags/"}

C22_IndexPagesAreContent ==
    (evaluated /\ path \in SectionIndexPages) => verdict

-----------------------------------------------------------------------------
(* C23: the breakdown queries and the time series cover the same period: the  *)
(* earliest breakdown window starts where the first slot of the series        *)
(* starts, the latest window ends where the last slot ends, and no window     *)
(* reaches outside the span of the series.                                    *)

\* the instant (in seconds) at which the first slot of the returned series begins
SeriesStart ==
    IF days = 1 THEN Report.daily_requests[1].date.n
    ELSE Report.daily_requests[1].date.n * 86400
\* the instant at which its last slot ends
SeriesEnd ==
    IF days = 1 THEN Report.daily_requests[24].date.n + 3600
    ELSE (Report.daily_requests[days].date.n + 1) * 86400

C23_BreakdownMatchesSeries ==
    ReturnedReport =>
        /\ Windows[1].geq.n = SeriesStart
        /\ Windows[Len(Windows)].leq.n = SeriesEnd
        /\ \A i \in 1..Len(Windows) :
              SeriesStart <= Windows[i].geq.n /\ Windows[i].leq.n <= SeriesEnd

-----------------------------------------------------------------------------
(* C24: every bucket the filter of the main query admits (hourly: an hour     *)
(* from now - 24h to now, both bounds inclusive; daily: a date from the first *)
(* to the last date of the period) has a slot among the generated labels, so  *)
(* no such bucket is dropped from the series.                                 *)

\* bucket e carries a time the filter of the main query lets through
Admitted(e) ==
    LET text == TextOfBucket(e)
        q == sent[1]
    IN IF days = 1
       THEN /\ text.fmt = "rfc3339" /\ text.off = 0 /\ text.n % 3600 = 0
            /\ q.geq.n <= text.n /\ text.n <= q.leq.n
       ELSE /\ text.fmt = "date"
            /\ q.geq.n <= text.n /\ text.n <= q.leq.n
SeriesLabels == {Report.daily_requests[i].date : i \in 1..Len(Report.daily_requests)}

C24_AdmittedBucketsHaveSlots ==
    ReturnedReport =>
        \A i \in 1..Len(MainBuckets) :
            Admitted(MainBuckets[i]) => SlotOfBucket(MainBuckets[i]) \in SeriesLabels

-----------------------------------------------------------------------------
(* C25: whatever start_dev_server and stop_dev_server calls the threads make, *)
(* at most one managed child exists: start kills and waits for the recorded   *)
(* child before it spawns, stop leaves the state empty (also when it already  *)
(* was), and a failed spawn leaves the state empty with no child running.     *)

\* thread t returns from its call in this step
DevReturns(t) == dpc[t] # "idle" /\ dpc'[t] = "idle"

C25_AtMostOneChild ==
    /\ [](/\ Cardinality(alive) <= 1
          /\ dev_lock = 0 => alive \subseteq {dev_child}
          /\ \A t \in Threads : dpc[t] = "spawn" => (alive = {} /\ dev_child = 0))
    /\ [][\A t \in Threads :
            DevReturns(t) =>
                /\ (dop[t] = "stop" \/ dret'[t] = "err") =>
                      (dev_child' = 0 /\ alive' = {})
                /\ dop[t] = "stop" => dret'[t] = "ok"
                /\ (dop[t] = "start" /\ dret'[t] = "ok") =>
                      (dev_child' # 0 /\ alive' \subseteq {dev_child'})]_vars

\* a second start is about to spawn while another thread waits for the mutex:
\* the child of the first start was recorded, and is gone
C25_Witness ==
    /\ spawned = 1 /\ alive = {} /\ dev_child = 0
    /\ \E t, u \in Threads :
          /\ t # u /\ dpc[t] = "spawn" /\ dop[t] = "start"
          /\ dpc[u] = "lock" /\ dret[u] = "none"

-----------------------------------------------------------------------------
(* C26: start_watching with the path already watched changes nothing and      *)
(* keeps the watcher; with another path the old watcher is dropped before the *)
(* new one is created; at most one watcher exists after any sequence of       *)
(* calls; and when creating or registering the new watcher fails, no watcher  *)
(* is left installed.                                                         *)
C26_AtMostOneWatcher ==
    /\ [](/\ Cardinality(w_alive) <= 1
          /\ wpc = "create" => (w_alive = {} /\ w_inner = NoWatcher)
          /\ wpc = "idle" =>
                w_alive = (IF w_inner.id = 0 THEN {} ELSE {w_inner.id})
          /\ (wpc = "idle" /\ w_ret = "err") => (w_inner = NoWatcher /\ w_alive = {}))
    /\ [][(wpc = "check" /\ w_inner.id # 0 /\ w_inner.path = w_arg) =>
            /\ wpc' = "idle" /\ w_ret' = "ok"
            /\ w_inner' = w_inner /\ w_alive' = w_alive /\ w_made' = w_made]_vars

\* registering the second watcher, for another path, failed
C26_Witness ==
    /\ wpc = "idle" /\ w_ret = "err" /\ w_made = 2
    /\ w_arg = "/repo/b"
    /\ w_inner = NoWatcher /\ w_alive = {}

-----------------------------------------------------------------------------
(* C27 *)

\* the frontmatter has the line `key: value`, and no line of that key before it
HasField(file, k, v) ==
    /\ file.exists /\ file.fm
    /\ \E i \in 1..Len(file.yaml) :
        /\ file.yaml[i] = Line(k, v)
        /\ \A j \in 1..(i - 1) : file.yaml[j].key # k

\* the last call was op on an entry whose frontmatter had isDraft: v
CalledOn(op, v) == c_last.op = op /\ HasField(c_last.before, "isDraft", v)

\* the entry a file reads as
EntryOf(file) ==
    [is_draft |-> ~HasField(file, "isDraft", "false"),
     publication_date |-> get_yaml_field(file.yaml, "publicationDate")]

\* C27: publish on an entry whose frontmatter already has isDraft: false, and
\* unpublish on an entry whose frontmatter already has isDraft: true, write
\* nothing to the content file and run no git command: the file is as it
\* was, and what they return, when they return an entry, is the state of
\* that file.
C27_AlreadyThereIsNoOp ==
    (CalledOn("publish", "false") \/ CalledOn("unpublish", "true")) =>
        /\ ~c_last.wrote
        /\ c_last.ran = <<>>
        /\ c_disk[c_last.slug] = c_last.before
        /\ c_last.ret.ok =>
            /\ c_last.ret.val.slug = c_last.slug
            /\ c_last.ret.val.is_draft = EntryOf(c_last.before).is_draft
            /\ c_last.ret.val.publication_date = EntryOf(c_last.before).publication_date

\* publish returned the entry of a slug that an earlier publish had stamped
C27_Witness ==
    /\ CalledOn("publish", "false")
    /\ c_stamps[c_last.slug] # <<>>
    /\ c_last.ret.ok /\ ~c_last.ret.val.is_draft

-----------------------------------------------------------------------------
(* C28 *)

\* the publicationDate lines of a file
IsPubLine(l) == l.key = "publicationDate"
PubLines(file) == SelectSeq(file.yaml, IsPubLine)

\* the line publish writes on day d
StampLine(d) == Line("publicationDate", "\"" \o today_iso(d) \o "\"")

\* the last call was op and it rewrote the content file
Rewrote(op) == c_last.op = op /\ c_last.wrote

\* C28 as stated, its last part: after every successful publish the entry
\* has isDraft false and a publicationDate.
C28_PublishedEntryIsDated ==
    (c_last.op = "publish" /\ c_last.ret.ok) =>
        /\ ~c_last.ret.val.is_draft
        /\ c_last.ret.val.publication_date # None

\* C28, amended: publish adds a publicationDate line, with the date of the
\* day, only when it rewrites the file and the frontmatter has no such line;
\* a file that has the line keeps its publicationDate lines through every
\* publish and unpublish; so publish stamps a slug at most once and the
\* entry reads the date of that first stamp ever after; and after a publish
\* that rewrote the file the frontmatter has isDraft: false and a
\* publicationDate line.
C28_DateIsSetOnce ==
    /\ \A s \in ContentSlugs :
        /\ Len(c_stamps[s]) <= 1
        /\ c_stamps[s] # <<>> =>
            /\ PubLines(c_disk[s]) = <<StampLine(c_stamps[s][1])>>
            /\ get_yaml_field(c_disk[s].yaml, "publicationDate")
                   = Some(today_iso(c_stamps[s][1]))
    /\ c_last.op \in {"publish", "unpublish"} =>
        LET before == c_last.before
            after == c_disk[c_last.slug]
        IN  /\ (c_last.op = "unpublish" \/ PubLines(before) # <<>> \/ ~c_last.wrote)
                  => PubLines(after) = PubLines(before)
            /\ (Rewrote("publish") /\ PubLines(before) = <<>>)
                  => /\ c_stamps[c_last.slug] # <<>>
                     /\ c_stamps[c_last.slug][1] <= c_today
            /\ Rewrote("publish")
                  => /\ HasField(after, "isDraft", "false")
                     /\ PubLines(after) # <<>>
                     /\ c_last.ret.ok => ~c_last.ret.val.is_draft

\* publish, unpublish, then publish on a later day: the date is still the first
C28_Witness ==
    /\ Rewrote("publish") /\ c_last.ret.ok
    /\ HasField(c_last.before, "isDraft", "true")
    /\ c_stamps[c_last.slug] # <<>>
    /\ c_stamps[c_last.slug][1] < c_today
    /\ c_last.ret.val.publication_date = Some(today_iso(c_stamps[c_last.slug][1]))

-----------------------------------------------------------------------------
(* C29 *)

\* the last call was a publish that git_add_commit_push ended with an error
PublishGitFailed ==
    /\ c_last.op = "publish" /\ ~c_last.ret.ok
    /\ c_last.ret.err \in {"git add failed", "git commit failed", "git push failed"}

\* a step that is a publish call on the slug of the last call
PublishAgain ==
    /\ c_last'.op = "publish" /\ c_last'.slug = c_last.slug
    /\ c_today' = c_today

-----------------------------------------------------------------------------
(* C30 *)

\* what the last delete_content removed from the working tree
Removed == x_last.before \ x_dirs

\* the directories that are a direct child of src/content/blog or src/content/apps
DirectEntries == {d \in x_last.before : Len(d) = 2 /\ d[1] \in {"blog", "apps"}}

\* the slug holds one of the three forbidden pieces of text
Forbidden(slug) ==
    \E i \in 1..Len(slug) :
        \/ SubSeq(slug, i, i) \in {"/", "\\"}
        \/ i < Len(slug) /\ SubSeq(slug, i, i + 1) = ".."

\* the last call was refused before it touched anything
RefusedUntouched ==
    /\ x_last.ret = Err("Invalid slug")
    /\ x_last.ran = <<>> /\ Removed = {}

\* C30: delete_content rejects every slug that contains "..", "/" or "\"
\* with the error "Invalid slug" before touching the filesystem or git, so
\* whatever a call removes is one direct child of src/content/blog or
\* src/content/apps (with what it holds), and the child of blog when both
\* have one of that name.
C30_RemovesOneDirectChild ==
    /\ Forbidden(x_last.slug) => RefusedUntouched
    /\ Removed # {} =>
        \E target \in DirectEntries :
            /\ \A d \in Removed : Under(target, d)
            /\ target[2] = x_last.slug
            /\ <<"blog", x_last.slug>> \in x_last.before => target[1] = "blog"

InitPath ==
    /\ path \in PathInputs /\ evaluated = FALSE /\ verdict = FALSE
    /\ AnalyticsIdle /\ ZoneIdle /\ SideIdle
NextPath == EvalContentPath
SpecPath == InitPath /\ [][NextPath]_vars

InitZone == AnalyticsIdle /\ PathIdle /\ ZoneIdle /\ SideIdle
NextZone ==
    \/ \E dom \in Domains : ZoneCall(dom)
    \/ \E t \in ZoneAnswers : ZoneReply(t)
SpecZone == InitZone /\ [][NextZone]_vars

InitDev == AnalyticsIdle /\ PathIdle /\ ZoneIdle /\ SideIdle
NextDev ==
    \/ \E t \in Threads, op \in {"start", "stop"} : DevCall(t, op)
    \/ \E t \in Threads : DevLock(t)
    \/ \E t \in Threads : DevKill(t)
    \/ \E t \in Threads : DevClear(t)
    \/ \E t \in Threads : DevSpawnOk(t)
    \/ \E t \in Threads : DevSpawnFail(t)
    \/ \E t \in Threads : DevStore(t)
    \/ \E c \in alive : ChildExits(c)
SpecDev == InitDev /\ [][NextDev]_vars

InitWatch == AnalyticsIdle /\ PathIdle /\ ZoneIdle /\ SideIdle
NextWatch ==
    \/ \E pth \in RepoPaths : WatchCall(pth)
    \/ WatchCheck
    \/ WatchDrop
    \/ WatchCreateOk
    \/ WatchCreateFail
    \/ WatchDirSkip
    \/ WatchDirOk
    \/ WatchDirFail
    \/ WatchStore
    \/ StopWatching
SpecWatch == InitWatch /\ [][NextWatch]_vars

InitContent ==
    /\ AnalyticsIdle /\ PathIdle /\ ZoneIdle /\ DevIdle /\ WatchIdle /\ DeleteIdle
    /\ c_disk \in [ContentSlugs -> Templates]
    /\ \E s \in ContentSlugs : c_disk[s] = NoFile
    /\ c_head = c_disk /\ c_remote = c_disk
    /\ c_today = 1 /\ c_last = NoCall
    /\ c_stamps = [s \in ContentSlugs |-> <<>>]
NextContent ==
    \/ \E s \in ContentSlugs, o \in Faults : Publish(s, o)
    \/ \E s \in ContentSlugs, o \in Faults : Unpublish(s, o)
    \/ NextDay
SpecContent == InitContent /\ [][NextContent]_vars

InitDelete ==
    /\ AnalyticsIdle /\ PathIdle /\ ZoneIdle /\ DevIdle /\ WatchIdle /\ ContentIdle
    /\ \E some \in SUBSET Entries :
        x_dirs = ContentRoots \cup some
                   \cup {d \in Assets : SubSeq(d, 1, 2) \in some}
    /\ x_head = x_dirs /\ x_remote = x_dirs
    /\ x_last = NoDelete
NextDelete == \E slug \in DeleteSlugs, o \in DeleteFaults : DeleteContent(slug, o)
SpecDelete == InitDelete /\ [][NextDelete]_vars

====
